---- MODULE Spec2Model ----
(***************************************************************************)
(* A model of the Thompsons-Super-Search web application:                  *)
(*   - the keyword and smart search engines of src/src/web/routes.py,      *)
(*   - the LLM query parsing, validation and caching layer of              *)
(*     src/src/web/llm_query.py,                                           *)
(*   - the per-project index loader and its background threads             *)
(*     (routes.py, blob_storage.py, __init__.py).                          *)
(* Strings are sequences of one-character strings, so that lower(),        *)
(* strip(), substring tests and regular expressions are computed.          *)
(***************************************************************************)
EXTENDS Integers, Sequences, FiniteSets, TLC

(***************************************************************************)
(* Bounds of the model.                                                    *)
(***************************************************************************)
MaxDocs == 2
MaxPageNo == 3
MaxPerPage == 2
\* lengths of the long and short term lists the LLM may return
LongList == 16
ShortList == 4
\* SMART_SEARCH_CACHE_TTL (600 s in the program), in ticks of the model's clock
CacheTTL == 1
\* the cache size limit (1000 in the program), scaled to the model's key space
CacheLimit == 1
\* the clock runs from ClockStart for MaxTicks ticks
MaxTicks == 1
\* requests served by the process
MaxRequests == 3
\* requests that use the index
MaxIndexRequests == 3
\* calls of start_background_index_download for the project
MaxStartCalls == 2

(***************************************************************************)
(* Constants of the program.                                               *)
(***************************************************************************)
MaxOptionalTerms == 15
MaxPersonNames == 3
MaxLocations == 3
MaxDateHints == 2
MaxDateHintLen == 20
MaxTotalTerms == 20
MaxInterpretationLen == 200
MaxTargetLen == 100
MaxSearchTerms == 20
MaxAnalysisPersons == 5
MaxAnalysisLocations == 5
MaxAnalysisDateHints == 3
MaxFallbackTerms == 10
MaxRequiredFromSearch == 3
MaxAnalysisInterpretationLen == 300
MinYear == 1900
MaxYear == 2100
\* max_retries of the two retry loops
MaxRetries == 2
\* per_page of search_index and smart_search_index
DefaultPerPage == 20
\* the default confidence 0.8, in tenths
DefaultConfidence == 8

(***************************************************************************)
(* String helpers (Python str methods used by the code).                   *)
(***************************************************************************)
Q == "\""
SP == " "

\* str.lower() on one character
LowerChar(c) ==
    CASE c = "A" -> "a"
      [] c = "B" -> "b"
      [] c = "C" -> "c"
      [] OTHER -> c

\* str.lower()
Lower(s) == [i \in DOMAIN s |-> LowerChar(s[i])]

RECURSIVE LStrip(_)
LStrip(s) == IF s # <<>> /\ Head(s) = SP THEN LStrip(Tail(s)) ELSE s

RECURSIVE RStrip(_)
RStrip(s) ==
    IF s # <<>> /\ s[Len(s)] = SP THEN RStrip(SubSeq(s, 1, Len(s) - 1)) ELSE s

\* str.strip()
Strip(s) == RStrip(LStrip(s))

\* term in text
IsSubstr(t, s) ==
    \E i \in 0..(Len(s) - Len(t)) : SubSeq(s, i + 1, i + Len(t)) = t

\* text.count(term): non-overlapping occurrences, scanned left to right
RECURSIVE CountFrom(_, _, _)
CountFrom(t, s, i) ==
    IF i + Len(t) - 1 > Len(s) THEN 0
    ELSE IF SubSeq(s, i, i + Len(t) - 1) = t
         THEN 1 + CountFrom(t, s, i + (IF Len(t) = 0 THEN 1 ELSE Len(t)))
         ELSE CountFrom(t, s, i + 1)

Count(t, s) == CountFrom(t, s, 1)

\* str.split(): split on runs of whitespace, no empty words
RECURSIVE SplitFrom(_, _)
SplitFrom(s, cur) ==
    IF s = <<>> THEN (IF cur = <<>> THEN <<>> ELSE <<cur>>)
    ELSE IF Head(s) = SP
         THEN (IF cur = <<>> THEN <<>> ELSE <<cur>>) \o SplitFrom(Tail(s), <<>>)
         ELSE SplitFrom(Tail(s), Append(cur, Head(s)))

Split(s) == SplitFrom(s, <<>>)

Min(a, b) == IF a < b THEN a ELSE b
Max(a, b) == IF a > b THEN a ELSE b

RECURSIVE SumSeq(_)
SumSeq(s) == IF s = <<>> THEN 0 ELSE Head(s) + SumSeq(Tail(s))

\* all sequences over S of length at most n
SeqsUpTo(S, n) == UNION {[1..k -> S] : k \in 0..n}

Injective(s) == \A i, j \in DOMAIN s : s[i] = s[j] => i = j

(***************************************************************************)
(* parse_search_terms (routes.py 177-200).                                 *)
(***************************************************************************)
\* position of the first quote at or after i, 0 when there is none
RECURSIVE NextQuote(_, _)
NextQuote(s, i) ==
    IF i > Len(s) THEN 0
    ELSE IF s[i] = Q THEN i ELSE NextQuote(s, i + 1)

\* re.findall(r'"([^"]+)"', s): the contents of the non-empty quoted spans
RECURSIVE FindQuoted(_, _)
FindQuoted(s, i) ==
    IF i > Len(s) THEN <<>>
    ELSE IF s[i] = Q
         THEN LET j == NextQuote(s, i + 1)
              IN  IF j > i + 1
                  THEN <<SubSeq(s, i + 1, j - 1)>> \o FindQuoted(s, j + 1)
                  ELSE FindQuoted(s, i + 1)
         ELSE FindQuoted(s, i + 1)

\* re.sub(r'"([^"]+)"', '', s): the text with those spans removed
RECURSIVE RemoveQuoted(_, _)
RemoveQuoted(s, i) ==
    IF i > Len(s) THEN <<>>
    ELSE IF s[i] = Q
         THEN LET j == NextQuote(s, i + 1)
              IN  IF j > i + 1
                  THEN RemoveQuoted(s, j + 1)
                  ELSE <<s[i]>> \o RemoveQuoted(s, i + 1)
         ELSE <<s[i]>> \o RemoveQuoted(s, i + 1)

\* mutant: the words come before the quoted phrases
parse_search_terms_WordsFirst(query) ==
    LET q == Strip(query)
        quoted == FindQuoted(q, 1)
        remaining == Strip(RemoveQuoted(q, 1))
        words == IF remaining # <<>> THEN Split(remaining) ELSE <<>>
    IN  [i \in DOMAIN words |-> Lower(words[i])]
        \o [i \in DOMAIN quoted |-> Lower(quoted[i])]

\* parse_search_terms (routes.py 177-200)
parse_search_terms(query) ==
    LET q == Strip(query)
        quoted == FindQuoted(q, 1)
        remaining == Strip(RemoveQuoted(q, 1))
        words == IF remaining # <<>> THEN Split(remaining) ELSE <<>>
    IN  [i \in DOMAIN quoted |-> Lower(quoted[i])]
        \o [i \in DOMAIN words |-> Lower(words[i])]

(***************************************************************************)
(* State.                                                                  *)
(***************************************************************************)
VARIABLES
    \* keyword / smart search engine (routes.py 203-429)
    s_pc,        \* "idle", "ready" (arguments bound) or "done"
    s_disk,      \* the .json files of the project's texts folder
    s_index,     \* _indexes[project_id]: the loaded documents
    s_args,      \* the arguments of the call
    s_matches,   \* the local list `results` after the sort, before the slice
    s_result,    \* the returned dict
    \* validate_query_plan (llm_query.py 143-211)
    v_pc,        \* "idle", "ready" (plan_dict bound) or "done"
    v_plan_dict, \* the parsed LLM output
    v_result,    \* the returned QueryPlan or the raised exception
    \* LLM query layer (llm_query.py 348-688) and the search endpoints
    query_cache,      \* _query_cache: key -> QueryPlan or QueryAnalysis
    cache_timestamps, \* _cache_timestamps: key -> time, in insertion order
    now,              \* time.time()
    env,              \* the environment variables and the LLM service's answers
    th,               \* the request threads: position and local variables
    g_ret,            \* history: key -> the plan a parse call returned after caching it
    requests,         \* history: the requests that have arrived
    \* index loading (routes.py 26-174, blob_storage.py 17-174, __init__.py 44-86)
    indexes,          \* _indexes[project_id], or NoResult while absent
    metadatas,        \* _metadatas[project_id], or NoResult while absent
    preload_states,   \* _preload_states[project_id], or NoResult while absent
    download_states,  \* _download_states[project_id], or NoResult while absent
    disk,             \* the project's local index folder
    blob,             \* blob storage: configured or not, and the blobs it holds
    bg,               \* create_app and the background threads
    hd,               \* the request handlers that use the index
    g_loads,          \* history: the executions of `_indexes[project_id] = index`
    \* file serving (routes.py 730-766, 839-886)
    f_pc,             \* "idle", "ready" or "done"
    f_request,        \* the endpoint, the configuration and the requested path
    f_response        \* what the handler answered

searchVars == <<s_pc, s_disk, s_index, s_args, s_matches, s_result>>
validateVars == <<v_pc, v_plan_dict, v_result>>

llmVars == <<query_cache, cache_timestamps, now, env, th, g_ret, requests>>

indexVars == <<indexes, metadatas, preload_states, download_states, disk, blob,
               bg, hd, g_loads>>

serveVars == <<f_pc, f_request, f_response>>

vars == <<searchVars, validateVars, llmVars, indexVars, serveVars>>
notSearchVars == <<validateVars, llmVars, indexVars, serveVars>>
notValidateVars == <<searchVars, llmVars, indexVars, serveVars>>
notLLMVars == <<searchVars, validateVars, indexVars, serveVars>>
notIndexVars == <<searchVars, validateVars, llmVars, serveVars>>
notServeVars == <<searchVars, validateVars, llmVars, indexVars>>

None == "None"
Missing == "Missing"
Malformed == [malformed |-> TRUE]
NoResult == [kind |-> "none"]
\* the clock starts past the TTL: time.time() - 0 < TTL is false in the program
ClockStart == CacheTTL

(***************************************************************************)
(* Documents (spec section 3, routes.py 65-78).                            *)
(***************************************************************************)
Page(n, text) == [page_num |-> n, text |-> text]

DocFiles == {
    [filename |-> "f1", file_type |-> "pdf",
     pages |-> << Page(1, <<"A", "b", " ", "a">>), Page(2, <<"b">>) >>],
    [filename |-> "f2", file_type |-> "excel",
     pages |-> << Page(1, <<"a", " ", "b">>) >>],
    [filename |-> "f3", file_type |-> Missing,
     pages |-> << Page(1, <<"a", "b">>), Page(2, <<"A">>) >>],
    [filename |-> "f4", file_type |-> "word",
     pages |-> << Page(1, <<"b", " ", "a", " ", "b">>),
                  Page(2, <<"a", "a", "a", "a">>) >>] }

DiskFiles == DocFiles \cup {Malformed}

\* mutant: the document is appended as it was read
LoadDoc_AsRead(file) == file

\* json.load of one file plus the file_type default (routes.py 72-76)
LoadDoc(file) ==
    IF file.file_type = Missing THEN [file EXCEPT !.file_type = "pdf"] ELSE file

\* the loop over the texts folder (routes.py 66-78): malformed files are skipped
RECURSIVE LoadFiles(_)
LoadFiles(files) ==
    IF files = <<>> THEN <<>>
    ELSE IF Head(files) = Malformed THEN LoadFiles(Tail(files))
         ELSE <<LoadDoc(Head(files))>> \o LoadFiles(Tail(files))

\* doc.get('file_type', 'pdf')
FileTypeOf(doc) == IF doc.file_type = Missing THEN "pdf" ELSE doc.file_type

\* Python truthiness of the file_type_filter argument
Truthy(x) == x # None /\ x # ""

(***************************************************************************)
(* search_index (routes.py 203-288).                                       *)
(***************************************************************************)
\* mutant: any() in place of all()
AllTermsIn_Any(terms, text_lower) ==
    \E i \in DOMAIN terms : IsSubstr(terms[i], text_lower)

\* all(term in text_lower for term in search_terms)
AllTermsIn(terms, text_lower) ==
    \A i \in DOMAIN terms : IsSubstr(terms[i], text_lower)

\* mutant: one per term, however often it occurs
MatchCount_Presence(terms, text_lower) ==
    SumSeq([i \in DOMAIN terms |->
               IF IsSubstr(terms[i], text_lower) THEN 1 ELSE 0])

\* sum(text_lower.count(term) for term in search_terms)
MatchCount(terms, text_lower) ==
    SumSeq([i \in DOMAIN terms |-> Count(terms[i], text_lower)])

\* the inner loop over doc.get('pages', []) (routes.py 246-268)
RECURSIVE KeywordPages(_, _, _)
KeywordPages(doc, pages, terms) ==
    IF pages = <<>> THEN <<>>
    ELSE LET text_lower == Lower(Head(pages).text)
             rest == KeywordPages(doc, Tail(pages), terms)
         IN  IF AllTermsIn(terms, text_lower)
             THEN << [filename |-> doc.filename,
                      page |-> Head(pages).page_num,
                      file_type |-> FileTypeOf(doc),
                      match_count |-> MatchCount(terms, text_lower)] >> \o rest
             ELSE rest

\* the file-type test of the outer loop (routes.py 240-242): TRUE = skip the doc
FilteredOut(doc, file_type_filter) ==
    Truthy(file_type_filter) /\ FileTypeOf(doc) # file_type_filter

\* the outer loop over the index (routes.py 238-268)
RECURSIVE KeywordScan(_, _, _)
KeywordScan(index, terms, file_type_filter) ==
    IF index = <<>> THEN <<>>
    ELSE LET doc == Head(index)
             rest == KeywordScan(Tail(index), terms, file_type_filter)
         IN  IF FilteredOut(doc, file_type_filter) THEN rest
             ELSE KeywordPages(doc, doc.pages, terms) \o rest

\* list.sort(key=lambda x: x[key], reverse=True): stable, descending by the key
RECURSIVE InsertDesc(_, _, _)
InsertDesc(e, sorted, key) ==
    IF sorted = <<>> THEN <<e>>
    ELSE IF Head(sorted)[key] >= e[key]
         THEN <<Head(sorted)>> \o InsertDesc(e, Tail(sorted), key)
         ELSE <<e>> \o sorted

RECURSIVE SortDesc(_, _)
SortDesc(list, key) ==
    IF list = <<>> THEN <<>>
    ELSE LET front == SubSeq(list, 1, Len(list) - 1)
         IN  InsertDesc(list[Len(list)], SortDesc(front, key), key)

\* mutant: floor division
TotalPages_Floor(total_matches, per_page) == total_matches \div per_page

\* (total_matches + per_page - 1) // per_page (routes.py 275, 416)
TotalPages(total_matches, per_page) == (total_matches + per_page - 1) \div per_page

\* results[start_idx:end_idx] for 0 <= start_idx <= end_idx
Slice(list, start_idx, end_idx) ==
    SubSeq(list, start_idx + 1, Min(end_idx, Len(list)))

\* mutant: the slice starts at page * per_page
Paginate_FromPage(query, results, page, per_page) ==
    LET total_matches == Len(results)
        start_idx == page * per_page
        end_idx == start_idx + per_page
    IN  [kind |-> "results",
         query |-> query,
         total_matches |-> total_matches,
         documents |-> Cardinality({results[i].filename : i \in DOMAIN results}),
         results |-> Slice(results, start_idx, end_idx),
         page |-> page,
         total_pages |-> TotalPages(total_matches, per_page),
         has_more |-> end_idx < total_matches]

\* the pagination block and the returned dict (routes.py 273-288, 414-429)
Paginate(query, results, page, per_page) ==
    LET total_matches == Len(results)
        start_idx == (page - 1) * per_page
        end_idx == start_idx + per_page
    IN  [kind |-> "results",
         query |-> query,
         total_matches |-> total_matches,
         documents |-> Cardinality({results[i].filename : i \in DOMAIN results}),
         results |-> Slice(results, start_idx, end_idx),
         page |-> page,
         total_pages |-> TotalPages(total_matches, per_page),
         has_more |-> end_idx < total_matches]

\* the two early returns (routes.py 212-233, 333-342)
EmptyResult(query, page) ==
    [kind |-> "results", query |-> query, total_matches |-> 0, documents |-> 0,
     results |-> <<>>, page |-> page, total_pages |-> 0, has_more |-> FALSE]

\* `not query or not query.strip()`
Blank(query) == query = <<>> \/ Strip(query) = <<>>

\* the list `results` of search_index after the sort (routes.py 235-271)
KeywordMatches(index, query, file_type_filter) ==
    IF Blank(query) \/ parse_search_terms(query) = <<>> THEN <<>>
    ELSE SortDesc(KeywordScan(index, parse_search_terms(query), file_type_filter),
                  "match_count")

search_index(index, query, page, per_page, file_type_filter) ==
    IF Blank(query) THEN EmptyResult(<<>>, page)
    ELSE IF parse_search_terms(query) = <<>> THEN EmptyResult(query, page)
    ELSE Paginate(query, KeywordMatches(index, query, file_type_filter),
                  page, per_page)

(***************************************************************************)
(* smart_search_index (routes.py 326-429).                                 *)
(***************************************************************************)
QueryPlan(required, optional, person_names, locations) ==
    [required_terms |-> required, optional_terms |-> optional,
     person_names |-> person_names, locations |-> locations]

\* the number of terms of the list present in the text
PresentCount(terms, text_lower) ==
    Cardinality({i \in DOMAIN terms : IsSubstr(terms[i], text_lower)})

\* mutant: the required terms are not capped per term
RelevanceScore_NoTermCap(plan, text_lower) ==
    LET required ==
            SumSeq([i \in DOMAIN plan.required_terms |->
                       Count(plan.required_terms[i], text_lower) * 10])
        optional == 5 * PresentCount(plan.optional_terms, text_lower)
        persons == 15 * PresentCount(plan.person_names, text_lower)
        places == 10 * PresentCount(plan.locations, text_lower)
    IN  Min(required + optional + persons + places, 100)

\* the relevance score of one page (routes.py 370-394)
RelevanceScore(plan, text_lower) ==
    LET required ==
            SumSeq([i \in DOMAIN plan.required_terms |->
                       Min(Count(plan.required_terms[i], text_lower) * 10, 30)])
        optional == 5 * PresentCount(plan.optional_terms, text_lower)
        persons == 15 * PresentCount(plan.person_names, text_lower)
        places == 10 * PresentCount(plan.locations, text_lower)
    IN  Min(required + optional + persons + places, 100)

\* the inner loop over the pages (routes.py 361-409)
RECURSIVE SmartPages(_, _, _)
SmartPages(doc, pages, plan) ==
    IF pages = <<>> THEN <<>>
    ELSE LET text_lower == Lower(Head(pages).text)
             rest == SmartPages(doc, Tail(pages), plan)
         IN  IF ~AllTermsIn(plan.required_terms, text_lower) THEN rest
             ELSE << [filename |-> doc.filename,
                      page |-> Head(pages).page_num,
                      file_type |-> FileTypeOf(doc),
                      match_count |-> RelevanceScore(plan, text_lower),
                      relevance_score |-> RelevanceScore(plan, text_lower)] >>
                  \o rest

\* the outer loop (routes.py 353-409)
RECURSIVE SmartScan(_, _, _)
SmartScan(index, plan, file_type_filter) ==
    IF index = <<>> THEN <<>>
    ELSE LET doc == Head(index)
             rest == SmartScan(Tail(index), plan, file_type_filter)
         IN  IF FilteredOut(doc, file_type_filter) THEN rest
             ELSE SmartPages(doc, doc.pages, plan) \o rest

\* ' '.join(terms)
RECURSIVE Join(_)
Join(terms) ==
    IF terms = <<>> THEN <<>>
    ELSE IF Len(terms) = 1 THEN Head(terms)
    ELSE Head(terms) \o <<SP>> \o Join(Tail(terms))

\* the list `results` of smart_search_index after the sort (routes.py 344-412)
SmartMatches(index, plan, file_type_filter) ==
    IF plan.required_terms = <<>> THEN <<>>
    ELSE SortDesc(SmartScan(index, plan, file_type_filter), "relevance_score")

smart_search_index(index, plan, page, per_page, file_type_filter) ==
    IF plan.required_terms = <<>> THEN EmptyResult(<<>>, page)
    ELSE Paginate(Join(plan.required_terms),
                  SmartMatches(index, plan, file_type_filter), page, per_page)

(***************************************************************************)
(* The search engine as a state machine: one call of search_index or of    *)
(* smart_search_index on a loaded index.                                   *)
(***************************************************************************)
Queries == {
    <<>>,
    <<SP>>,
    <<"a">>,
    <<"A", SP, "b">>,
    <<Q, "a", SP, "b", Q>>,
    <<Q, Q>>,
    <<"b", SP, Q, "A", Q>>,
    <<"a", SP, "a">>,
    <<"c">>,
    <<Q, "a">>,
    <<Q, Q, "A", Q>>,
    <<"a", Q, "B", Q, "b">>,
    <<Q, SP, Q, "a">>,
    <<"a", "a">> }

Plans == {
    QueryPlan(<< <<"a">> >>, << <<"b">> >>, <<>>, <<>>),
    QueryPlan(<< <<"a">>, <<"b">> >>, <<>>, << <<"a", SP, "b">> >>, << <<"b">> >>),
    QueryPlan(<<>>, << <<"a">> >>, <<>>, <<>>),
    QueryPlan(<< <<"a">>, <<"a">>, <<"a">> >>, << <<"a", "a">> >>,
              << <<"a">> >>, << <<"a">> >>) }

FileTypeFilters == {None, "", "pdf", "excel"}

SearchArgs ==
    [op : {"keyword"}, query : Queries, plan : {None},
     page : 1..MaxPageNo, per_page : 1..MaxPerPage,
     file_type_filter : FileTypeFilters]
    \cup
    [op : {"smart"}, query : {None}, plan : Plans,
     page : 1..MaxPageNo, per_page : 1..MaxPerPage,
     file_type_filter : FileTypeFilters]

SearchIdle ==
    /\ s_pc = "idle"
    /\ s_disk = <<>>
    /\ s_index = <<>>
    /\ s_args = None
    /\ s_matches = <<>>
    /\ s_result = NoResult

SearchInit ==
    /\ s_pc = "ready"
    /\ s_disk \in {d \in SeqsUpTo(DiskFiles, MaxDocs) : Injective(d)}
    /\ s_index = LoadFiles(s_disk)
    /\ s_args \in SearchArgs
    /\ s_matches = <<>>
    /\ s_result = NoResult

SearchIndex ==
    /\ s_pc = "ready"
    /\ s_args.op = "keyword"
    /\ s_matches' = KeywordMatches(s_index, s_args.query, s_args.file_type_filter)
    /\ s_result' = search_index(s_index, s_args.query, s_args.page,
                                s_args.per_page, s_args.file_type_filter)
    /\ s_pc' = "done"
    /\ UNCHANGED <<s_disk, s_index, s_args>>
    /\ UNCHANGED notSearchVars

SmartSearchIndex ==
    /\ s_pc = "ready"
    /\ s_args.op = "smart"
    /\ s_matches' = SmartMatches(s_index, s_args.plan, s_args.file_type_filter)
    /\ s_result' = smart_search_index(s_index, s_args.plan, s_args.page,
                                      s_args.per_page, s_args.file_type_filter)
    /\ s_pc' = "done"
    /\ UNCHANGED <<s_disk, s_index, s_args>>
    /\ UNCHANGED notSearchVars

(***************************************************************************)
(* JSON values of the LLM output (json.loads, llm_query.py 662).           *)
(* A value is absent (the key is missing), null, a number, a string or a   *)
(* list of values.                                                         *)
(***************************************************************************)
JAbsent == [t |-> "absent"]
JNull == [t |-> "null"]
JNum(n) == [t |-> "num", v |-> n]
JStr(chars) == [t |-> "str", v |-> chars]
JList(items) == [t |-> "list", v |-> items]

JObj(fields) == [t |-> "obj", v |-> fields]

\* dict.get(key) of a parsed JSON object, absent when the key is missing
Get(dict, key) == IF key \in DOMAIN dict THEN dict[key] ELSE JAbsent

\* Python truthiness of a JSON value (`if not term`, `if d`)
JTruthy(x) ==
    CASE x.t = "null" -> FALSE
      [] x.t = "num" -> x.v # 0
      [] x.t = "str" -> x.v # <<>>
      [] x.t = "list" -> x.v # <<>>
      [] x.t = "obj" -> DOMAIN x.v # {}
      [] OTHER -> FALSE

LETTERS ==
    {"a", "b", "c", "d", "e", "f", "g", "h", "i", "j", "k", "l", "m", "n", "o",
     "p", "q", "r", "s", "t", "u", "v", "w", "x", "y", "z", "A", "B", "C"}
DIGITS == {"1", "2", "3"}

\* the characters kept by re.sub(r'[^a-zA-Z0-9\s\-]', '', term)
KeptChar(c) == c \in LETTERS \cup DIGITS \cup {SP, "-"}

RECURSIVE KeepChars(_)
KeepChars(chars) ==
    IF chars = <<>> THEN <<>>
    ELSE IF KeptChar(Head(chars)) THEN <<Head(chars)>> \o KeepChars(Tail(chars))
         ELSE KeepChars(Tail(chars))

\* mutant: the cleaned string is stripped but not lower-cased
sanitize_term_NoLower(term) ==
    IF ~JTruthy(term) THEN [ok |-> TRUE, v |-> <<>>]
    ELSE IF term.t = "str" THEN [ok |-> TRUE, v |-> Strip(KeepChars(term.v))]
    ELSE [ok |-> FALSE, exc |-> "TypeError"]

\* sanitize_term (llm_query.py 134-140) on a JSON value: the cleaned string, or
\* TypeError when re.sub is handed a truthy value that is not a string
sanitize_term(term) ==
    IF ~JTruthy(term) THEN [ok |-> TRUE, v |-> <<>>]
    ELSE IF term.t = "str" THEN [ok |-> TRUE, v |-> Lower(Strip(KeepChars(term.v)))]
    ELSE [ok |-> FALSE, exc |-> "TypeError"]

\* plan_dict.get(key, []) followed by `if isinstance(x, str): x = [x]`:
\* the iterable of the comprehension, or TypeError when it is not iterable
FieldItems(value) ==
    CASE value.t = "absent" -> [ok |-> TRUE, v |-> <<>>]
      [] value.t = "str" -> [ok |-> TRUE, v |-> <<value>>]
      [] value.t = "list" -> [ok |-> TRUE, v |-> value.v]
      [] OTHER -> [ok |-> FALSE, exc |-> "TypeError"]

\* [sanitize_term(t) for t in items if sanitize_term(t)]
RECURSIVE SanitizeItems(_)
SanitizeItems(items) ==
    IF items = <<>> THEN [ok |-> TRUE, v |-> <<>>]
    ELSE LET head == sanitize_term(Head(items))
             rest == SanitizeItems(Tail(items))
         IN  IF ~head.ok THEN head
             ELSE IF ~rest.ok THEN rest
             ELSE IF head.v = <<>> THEN rest
             ELSE [ok |-> TRUE, v |-> <<head.v>> \o rest.v]

\* one sanitized term list of validate_query_plan (llm_query.py 147-150)
SanitizedField(value) ==
    IF FieldItems(value).ok THEN SanitizeItems(FieldItems(value).v)
    ELSE FieldItems(value)

\* list[:n]
Prefix(list, n) == SubSeq(list, 1, Min(n, Len(list)))

\* str(d) of a JSON value
Str(x) ==
    CASE x.t = "str" -> x.v
      [] x.t = "num" -> <<"1">>
      [] x.t = "absent" -> <<>>
      [] OTHER -> <<"N", "o", "n", "e">>

\* [str(d).strip()[:20] for d in date_hints if d] (llm_query.py 187)
RECURSIVE DateItems(_)
DateItems(items) ==
    IF items = <<>> THEN <<>>
    ELSE IF JTruthy(Head(items))
         THEN <<Prefix(Strip(Str(Head(items))), MaxDateHintLen)>>
              \o DateItems(Tail(items))
         ELSE DateItems(Tail(items))

\* float(plan_dict.get('confidence', 0.8)), in tenths
ConfidenceOf(value) ==
    CASE value.t = "absent" -> [ok |-> TRUE, v |-> DefaultConfidence]
      [] value.t = "num" -> [ok |-> TRUE, v |-> value.v]
      [] value.t = "str" -> [ok |-> FALSE, exc |-> "ValueError"]
      [] OTHER -> [ok |-> FALSE, exc |-> "TypeError"]

Raise(exc) == [kind |-> "raise", exc |-> exc]

\* validate_query_plan (llm_query.py 143-211)
validate_query_plan(plan_dict) ==
    LET required0 == SanitizedField(Get(plan_dict, "required_terms"))
        optional0 == SanitizedField(Get(plan_dict, "optional_terms"))
        persons0 == SanitizedField(Get(plan_dict, "person_names"))
        locations0 == SanitizedField(Get(plan_dict, "locations"))
    IN
    IF ~required0.ok THEN Raise(required0.exc)
    ELSE IF ~optional0.ok THEN Raise(optional0.exc)
    ELSE IF ~persons0.ok THEN Raise(persons0.exc)
    ELSE IF ~locations0.ok THEN Raise(locations0.exc)
    ELSE
    LET optional1 == Prefix(optional0.v, MaxOptionalTerms)
        person_names == Prefix(persons0.v, MaxPersonNames)
        locations == Prefix(locations0.v, MaxLocations)
        required == IF required0.v # <<>> THEN required0.v
                    ELSE IF person_names # <<>> THEN person_names
                    ELSE IF locations # <<>> THEN locations
                    ELSE <<>>
        hints == FieldItems(Get(plan_dict, "date_hints"))
        total_terms == Len(required) + Len(optional1) + Len(person_names)
                       + Len(locations)
        max_optional == Max(0, MaxTotalTerms - Len(required) - Len(person_names)
                               - Len(locations))
        optional == IF total_terms > MaxTotalTerms
                    THEN Prefix(optional1, max_optional) ELSE optional1
        confidence == ConfidenceOf(Get(plan_dict, "confidence"))
    IN
    IF required = <<>> THEN Raise("LLMValidationError")
    ELSE IF ~hints.ok THEN Raise(hints.exc)
    ELSE IF ~confidence.ok THEN Raise(confidence.exc)
    ELSE [kind |-> "plan",
          required_terms |-> required,
          optional_terms |-> optional,
          person_names |-> person_names,
          locations |-> locations,
          date_hints |-> Prefix(DateItems(hints.v), MaxDateHints),
          confidence |-> Max(0, Min(10, confidence.v)),
          interpretation |-> Prefix(Str(Get(plan_dict, "interpretation")),
                                    MaxInterpretationLen)]

(***************************************************************************)
(* validate_query_analysis (llm_query.py 385-507).                         *)
(***************************************************************************)
Word(w) == JStr(<<w>>)

\* a year of date_range: int(year) inside try/except, None unless 1900..2100
\* (llm_query.py 449-462)
YearOf(value) ==
    IF value.t = "num" /\ value.v >= MinYear /\ value.v <= MaxYear
    THEN value.v ELSE None

\* the date_range block (llm_query.py 441-468)
DateRangeOf(value) ==
    IF value.t = "obj" /\ JTruthy(value)
       /\ Get(value.v, "range_type")
             \in {Word("between"), Word("before"), Word("after"), Word("exact")}
    THEN [start_year |-> YearOf(Get(value.v, "start_year")),
          end_year |-> YearOf(Get(value.v, "end_year")),
          range_type |-> Get(value.v, "range_type").v[1]]
    ELSE None

validate_query_analysis(plan_dict) ==
    LET intent0 == Get(plan_dict, "intent")
        intent == IF intent0 \in {Word("extraction"), Word("finding"), Word("specific")}
                  THEN intent0.v[1] ELSE "finding"
        target0 == Get(plan_dict, "extraction_target")
        extraction_target ==
            IF JTruthy(target0) THEN Prefix(Str(target0), MaxTargetLen) ELSE None
        strategy0 == Get(plan_dict, "search_strategy")
        search_strategy ==
            IF strategy0 \in {Word("broad"), Word("focused"), Word("exhaustive")}
            THEN strategy0.v[1] ELSE "focused"
        search0 == SanitizedField(Get(plan_dict, "search_terms"))
        required0 == SanitizedField(Get(plan_dict, "required_terms"))
        optional0 == SanitizedField(Get(plan_dict, "optional_terms"))
        persons0 == SanitizedField(Get(plan_dict, "person_names"))
        locations0 == SanitizedField(Get(plan_dict, "locations"))
        hints == FieldItems(Get(plan_dict, "date_hints"))
        confidence == ConfidenceOf(Get(plan_dict, "confidence"))
    IN
    IF ~search0.ok THEN Raise(search0.exc)
    ELSE IF ~required0.ok THEN Raise(required0.exc)
    ELSE IF ~optional0.ok THEN Raise(optional0.exc)
    ELSE IF ~persons0.ok THEN Raise(persons0.exc)
    ELSE IF ~locations0.ok THEN Raise(locations0.exc)
    ELSE IF ~hints.ok THEN Raise(hints.exc)
    ELSE IF ~confidence.ok THEN Raise(confidence.exc)
    ELSE
    LET search1 == Prefix(search0.v, MaxSearchTerms)
        optional == Prefix(optional0.v, MaxOptionalTerms)
        person_names == Prefix(persons0.v, MaxAnalysisPersons)
        locations == Prefix(locations0.v, MaxAnalysisLocations)
        search_terms ==
            IF intent = "extraction" /\ search1 = <<>>
            THEN (IF optional # <<>> THEN Prefix(optional, MaxFallbackTerms)
                  ELSE << <<"d", "o", "c", "u", "m", "e", "n", "t">>,
                          <<"r", "e", "p", "o", "r", "t">>,
                          <<"f", "i", "l", "e">> >>)
            ELSE search1
        required ==
            IF intent \in {"finding", "specific"} /\ required0.v = <<>>
            THEN (IF person_names # <<>> THEN person_names
                  ELSE IF locations # <<>> THEN locations
                  ELSE IF search_terms # <<>>
                       THEN Prefix(search_terms, MaxRequiredFromSearch)
                  ELSE <<>>)
            ELSE required0.v
    IN  [kind |-> "analysis",
         intent |-> intent,
         extraction_target |-> extraction_target,
         search_terms |-> search_terms,
         search_strategy |-> search_strategy,
         required_terms |-> required,
         optional_terms |-> optional,
         person_names |-> person_names,
         locations |-> locations,
         date_hints |-> Prefix(DateItems(hints.v), MaxAnalysisDateHints),
         date_range |-> DateRangeOf(Get(plan_dict, "date_range")),
         confidence |-> Max(0, Min(10, confidence.v)),
         interpretation |-> Prefix(Str(Get(plan_dict, "interpretation")),
                                   MaxAnalysisInterpretationLen)]

(***************************************************************************)
(* validate_query_plan as a state machine: one call on one LLM output.     *)
(***************************************************************************)
\* n copies of a term
Rep(n, term) == [i \in 1..n |-> JStr(term)]

RequiredValues == {
    JAbsent,
    JNull,
    JStr(<<"a">>),
    JStr(<<"!">>),
    JList(<<>>),
    JList(<<JStr(<<"!">>), JNull, JStr(<<SP>>)>>),
    JList(<<JStr(<<SP, "A", "!", "b", SP>>), JStr(<<"a">>)>>),
    JList(<<JNum(5)>>),
    JList(Rep(LongList, <<"a">>)) }

OptionalValues ==
    {JAbsent, JNull, JList(<<JStr(<<"B">>)>>), JList(Rep(LongList, <<"b">>))}

PersonValues == {
    JAbsent,
    JStr(<<"a", SP, "b">>),
    JList(<<JStr(<<"!">>)>>),
    JList(<<JStr(<<"x", "-", "1">>)>>),
    JList(Rep(ShortList, <<"a">>)) }

LocationValues ==
    {JAbsent, JList(<<JStr(<<"C">>)>>), JList(Rep(ShortList, <<"c">>))}

DateHintValues ==
    {JAbsent, JNull, JList(<<JStr(<<"1">>), JNum(0), JStr(<<"2">>), JStr(<<"3">>)>>)}

ConfidenceValues == {JAbsent, JNum(15), JNum(-5), JStr(<<"x">>)}

InterpretationValues == {JAbsent, JStr(<<"a", SP, "b">>)}

PlanDicts ==
    [required_terms : RequiredValues,
     optional_terms : OptionalValues,
     person_names : PersonValues,
     locations : LocationValues,
     date_hints : DateHintValues,
     confidence : ConfidenceValues,
     interpretation : InterpretationValues]

ValidateIdle ==
    /\ v_pc = "idle"
    /\ v_plan_dict = None
    /\ v_result = NoResult

ValidateInit ==
    /\ v_pc = "ready"
    /\ v_plan_dict \in PlanDicts
    /\ v_result = NoResult

ValidateQueryPlan ==
    /\ v_pc = "ready"
    /\ v_result' = validate_query_plan(v_plan_dict)
    /\ v_pc' = "done"
    /\ UNCHANGED v_plan_dict
    /\ UNCHANGED notValidateVars

(***************************************************************************)
(* The two validators on one LLM output: validate_query_plan or            *)
(* validate_query_analysis is called on the parsed dict.                   *)
(***************************************************************************)
DirtyTerms ==
    JList(<<JStr(<<SP, "A", "!", "b", SP>>), JStr(<<"?">>),
            JStr(<<"B", "-", "1", "?", SP, "c">>)>>)

AnalysisDicts ==
    [intent : {JAbsent, Word("extraction"), Word("specific")},
     search_terms : {JAbsent, JStr(<<"C", "!">>), DirtyTerms},
     required_terms : {JAbsent, DirtyTerms, JList(<<JNum(5)>>)},
     optional_terms : {JAbsent, JList(<<JStr(<<"B", SP, "?">>)>>)},
     person_names : {JAbsent, JList(<<JStr(<<"!", "A", SP, "c">>)>>)},
     locations : {JAbsent, JList(<<JStr(<<"-", "C", "!">>)>>)}]

ValidatorsInit ==
    /\ v_pc = "ready"
    /\ v_plan_dict \in PlanDicts \cup AnalysisDicts
    /\ v_result = NoResult

ValidateQueryAnalysis ==
    /\ v_pc = "ready"
    /\ v_result' = validate_query_analysis(v_plan_dict)
    /\ v_pc' = "done"
    /\ UNCHANGED v_plan_dict
    /\ UNCHANGED notValidateVars

(***************************************************************************)
(* The query cache (llm_query.py 348-382).  _query_cache is a function on  *)
(* the keys it holds; _cache_timestamps is kept in insertion order, which  *)
(* is the order min() iterates in.  The md5 digest is taken as injective:  *)
(* a key is the string that is hashed.                                     *)
(***************************************************************************)
Threads == {"t1", "t2"}

COLON == ":"
ANALYSIS == <<"a", "n", "a", "l", "y", "s", "i", "s">>

\* _get_cache_key (llm_query.py 353-355)
PlanKey(project_id, query) ==
    project_id \o <<COLON>> \o Strip(Lower(query))

\* the cache key of analyze_query (llm_query.py 532-533)
AnalysisKey(project_id, query) ==
    ANALYSIS \o <<COLON>> \o project_id \o <<COLON>> \o Strip(Lower(query))

\* d[k] = v
Put(d, k, v) == [x \in DOMAIN d \cup {k} |-> IF x = k THEN v ELSE d[x]]
\* del d[k]
Del(d, k) == [x \in DOMAIN d \ {k} |-> d[x]]

TsKeys(d) == {d[i].k : i \in DOMAIN d}
\* _cache_timestamps.get(k, default)
TsGet(d, k, default) ==
    IF k \in TsKeys(d) THEN d[CHOOSE i \in DOMAIN d : d[i].k = k].ts ELSE default
\* _cache_timestamps[k] = ts: in place for a key held, appended for a new one
TsPut(d, k, ts) ==
    IF k \in TsKeys(d)
    THEN [i \in DOMAIN d |-> IF d[i].k = k THEN [k |-> k, ts |-> ts] ELSE d[i]]
    ELSE Append(d, [k |-> k, ts |-> ts])
\* del _cache_timestamps[k]
RECURSIVE TsDel(_, _)
TsDel(d, k) ==
    IF d = <<>> THEN <<>>
    ELSE IF Head(d).k = k THEN Tail(d) ELSE <<Head(d)>> \o TsDel(Tail(d), k)
\* min(_cache_timestamps, key=_cache_timestamps.get): the first key, in
\* iteration order, with the least timestamp
TsOldest(d) ==
    d[CHOOSE i \in DOMAIN d :
        /\ \A j \in DOMAIN d : d[i].ts <= d[j].ts
        /\ \A j \in 1..(i - 1) : d[j].ts > d[i].ts].k

(***************************************************************************)
(* Exceptions and the responses of the smart-search endpoint               *)
(* (llm_query.py 21-33, routes.py 535-689).                                *)
(***************************************************************************)
\* isinstance(exc, cls) over the classes of llm_query.py 21-33
IsInstance(exc, cls) ==
    \/ cls = "Exception"
    \/ exc = cls
    \/ cls = "LLMError" /\ exc \in {"LLMTimeoutError", "LLMValidationError"}

\* the clauses with the base class first: it catches its subclasses
SmartErrorHandlers_BaseFirst == <<
    [cls |-> "LLMError", status |-> 503, error_type |-> "service_error"],
    [cls |-> "LLMTimeoutError", status |-> 504, error_type |-> "timeout"],
    [cls |-> "LLMValidationError", status |-> 400, error_type |-> "validation"],
    [cls |-> "Exception", status |-> 500, error_type |-> "unknown"] >>

\* the except clauses of project_api_smart_search, in source order
SmartErrorHandlers == <<
    [cls |-> "LLMTimeoutError", status |-> 504, error_type |-> "timeout"],
    [cls |-> "LLMValidationError", status |-> 400, error_type |-> "validation"],
    [cls |-> "LLMError", status |-> 503, error_type |-> "service_error"],
    [cls |-> "Exception", status |-> 500, error_type |-> "unknown"] >>

\* the first except clause that matches
RECURSIVE FirstHandler(_, _)
FirstHandler(exc, handlers) ==
    IF IsInstance(exc, Head(handlers).cls) THEN Head(handlers)
    ELSE FirstHandler(exc, Tail(handlers))

\* the error responses (routes.py 624-689)
SmartErrorResponse(exc, keyword_enabled) ==
    [kind |-> "response",
     status |-> FirstHandler(exc, SmartErrorHandlers).status,
     error_type |-> FirstHandler(exc, SmartErrorHandlers).error_type,
     fallback_available |-> keyword_enabled]

\* the response with the flag written as a literal
SmartDisabledResponse_Literal(keyword_enabled) ==
    [kind |-> "response", status |-> 503, error |-> "Smart search is not enabled",
     fallback_available |-> TRUE]

\* smart search switched off (routes.py 547-552)
SmartDisabledResponse(keyword_enabled) ==
    [kind |-> "response", status |-> 503, error |-> "Smart search is not enabled",
     fallback_available |-> keyword_enabled]

\* the empty query (routes.py 535-545)
SmartEmptyResponse ==
    [kind |-> "response", status |-> 200, error |-> "Please enter a search query",
     total_matches |-> 0]

\* the result of the search (routes.py 593-622, 502-517)
SearchResponse(smart) ==
    [kind |-> "response", status |-> 200, smart_search |-> smart]

\* the except clauses of the retry loop of parse_query_with_llm (672-680):
\* the class stored in last_error
ParseLastError(failure) ==
    CASE failure = "JSONDecodeError" -> "LLMValidationError"
      [] failure = "timeout" -> "LLMTimeoutError"
      [] OTHER -> "LLMError"

\* the except clauses of the retry loop of analyze_query (583-594)
AnalyzeLastError(failure) ==
    CASE failure = "JSONDecodeError" -> "LLMValidationError"
      [] failure = "LLMValidationError" -> "LLMValidationError"
      [] failure = "timeout" -> "LLMTimeoutError"
      [] OTHER -> "LLMError"

(***************************************************************************)
(* The request threads.  A thread serves one request at a time:            *)
(*   smart    POST /p/<id>/api/smart-search  (routes.py 520-689), which    *)
(*            calls parse_query_with_llm (llm_query.py 605-688);           *)
(*   keyword  GET /p/<id>/api/search         (routes.py 493-517);          *)
(*   analyze  a call of analyze_query        (llm_query.py 510-602).       *)
(* Every access to the shared dicts and to the clock is a step of its own. *)
(***************************************************************************)
NoValue == [kind |-> "none"]

IdleThread ==
    [pc |-> "idle", kind |-> None, key |-> <<>>,
     timestamp |-> 0, attempt |-> 0, last_error |-> None, value |-> NoValue,
     oldest_key |-> <<>>, exc |-> None, response |-> NoValue, engine |-> None,
     \* history of the call, read by the properties only
     llm_calls |-> 0, validated_at |-> 0, stored |-> FALSE, stored_at |-> 0,
     hit |-> FALSE, expired |-> FALSE, removed |-> FALSE, seen |-> NoValue]

Calls == {
    [kind |-> "smart", pid |-> <<"p">>, query |-> <<"a">>],
    [kind |-> "smart", pid |-> <<"p">>, query |-> <<SP, "A">>],
    [kind |-> "smart", pid |-> ANALYSIS, query |-> <<"p", COLON, "a">>],
    [kind |-> "smart", pid |-> <<"p">>, query |-> <<SP>>],
    [kind |-> "analyze", pid |-> <<"p">>, query |-> <<"a">>],
    [kind |-> "analyze", pid |-> <<"p">>, query |-> <<"A", SP>>],
    [kind |-> "keyword", pid |-> <<"p">>, query |-> <<"a">>] }

\* what the LLM answers (llm_query.py 649-662)
LLMDicts == {
    [required_terms |-> JList(<<JStr(<<"a">>)>>)],
    [required_terms |-> JList(<<JStr(<<"b">>)>>), confidence |-> JNum(5)],
    [required_terms |-> JList(<<>>), intent |-> Word("extraction")],
    [required_terms |-> JList(<<JStr(<<"a">>)>>), optional_terms |-> JNull] }

\* one attempt: the call raises (its message holding "timeout" or not), the
\* content is not JSON, or it is one of the JSON objects
LLMOutcomes ==
    {[failure |-> f] : f \in {"timeout", "error", "JSONDecodeError"}}
    \cup {[failure |-> "none", dict |-> d] : d \in LLMDicts}

LLMIdle ==
    /\ query_cache = <<>>
    /\ cache_timestamps = <<>>
    /\ now = 0
    /\ env = None
    /\ th = <<>>
    /\ g_ret = <<>>
    /\ requests = 0

\* the outcomes whose output validates
ValidOutcomes ==
    {o \in LLMOutcomes :
        o.failure = "none" /\ validate_query_plan(o.dict).kind = "plan"}

\* the outcomes that are well-formed JSON which validate_query_plan rejects
\* for having no valid required term (llm_query.py 662-669, 180-181)
InvalidOutcomes ==
    {o \in LLMOutcomes :
        /\ o.failure = "none"
        /\ validate_query_plan(o.dict) = Raise("LLMValidationError")}

\* env: SMART_SEARCH_ENABLED, KEYWORD_SEARCH_ENABLED and OPENAI_API_KEY
\* (llm_query.py 691-698, 630), and what the LLM service can answer.
\* Concurrent requests, served by a configured process and a healthy service
LLMInit ==
    /\ query_cache = <<>>
    /\ cache_timestamps = <<>>
    /\ now = ClockStart
    /\ env = [smart |-> TRUE, keyword |-> TRUE, api_key |-> TRUE,
              outcomes |-> ValidOutcomes]
    /\ th = [t \in Threads |-> IdleThread]
    /\ g_ret = <<>>
    /\ requests = 0

\* requests served one after the other, under every configuration, by a
\* service with every outcome of the LLM call or by one whose every answer is
\* JSON that fails validation
SmartInit ==
    /\ query_cache = <<>>
    /\ cache_timestamps = <<>>
    /\ now = ClockStart
    /\ env \in [smart : BOOLEAN, keyword : BOOLEAN, api_key : BOOLEAN,
                 outcomes : {LLMOutcomes, InvalidOutcomes}]
    /\ th = [t \in {"t1"} |-> IdleThread]
    /\ g_ret = <<>>
    /\ requests = 0

\* the thread t replaced by rec
Step(t, rec) == th' = [th EXCEPT ![t] = rec]

\* the same, with the key k leaving _query_cache: the plans returned for k are
\* forgotten
StepForget(t, rec, k) ==
    /\ th' = [u \in DOMAIN th |->
                IF u = t THEN [rec EXCEPT !.seen = IF rec.key = k THEN NoValue ELSE @]
                ELSE IF th[u].key = k THEN [th[u] EXCEPT !.seen = NoValue]
                ELSE th[u]]
    /\ g_ret' = Del(g_ret, k)

\* an exception leaves parse_query_with_llm: the except clauses of the endpoint
EndpointRaise(rec, exc) ==
    [rec EXCEPT !.exc = exc,
                !.response = SmartErrorResponse(exc, env.keyword),
                !.pc = "responded"]

\* an exception leaves analyze_query
AnalyzeRaise(rec, exc) ==
    [rec EXCEPT !.exc = exc, !.response = Raise(exc), !.pc = "responded"]

\* `if not OPENAI_API_KEY: raise LLMError` (llm_query.py 630-632, 540-542), then
\* the retry loop
EnterRetryLoop(rec) ==
    IF env.api_key THEN [rec EXCEPT !.pc = IF rec.kind = "smart" THEN "p_attempt"
                                           ELSE "a_attempt"]
    ELSE IF rec.kind = "smart" THEN EndpointRaise(rec, "LLMError")
    ELSE AnalyzeRaise(rec, "LLMError")

\* an attempt failed with last_error = error: retry, or raise after the last
\* attempt (llm_query.py 682-688, 596-602)
AttemptFailed(rec, error) ==
    IF rec.attempt < MaxRetries
    THEN [rec EXCEPT !.last_error = error, !.attempt = @ + 1,
                     !.pc = IF rec.kind = "smart" THEN "p_attempt" ELSE "a_attempt"]
    ELSE IF rec.kind = "smart"
         THEN EndpointRaise([rec EXCEPT !.last_error = error], error)
         ELSE AnalyzeRaise([rec EXCEPT !.last_error = error], error)

\* a request arrives (routes.py 527-552, 497-517; llm_query.py 531-533)
Request(t) ==
    /\ th[t].pc = "idle"
    /\ requests < MaxRequests
    /\ requests' = requests + 1
    /\ \E c \in Calls :
          LET rec == [th[t] EXCEPT !.kind = c.kind]
              query == Strip(c.query)
          IN  Step(t,
                CASE c.kind = "keyword" ->
                        [rec EXCEPT !.engine = "keyword",
                                    !.response = SearchResponse(FALSE),
                                    !.pc = "responded"]
                  [] c.kind = "analyze" ->
                        [rec EXCEPT !.key = AnalysisKey(c.pid, c.query),
                                    !.pc = "a_lookup"]
                  [] c.kind = "smart" /\ query = <<>> ->
                        [rec EXCEPT !.response = SmartEmptyResponse,
                                    !.pc = "responded"]
                  [] c.kind = "smart" /\ query # <<>> /\ ~env.smart ->
                        [rec EXCEPT !.response = SmartDisabledResponse(env.keyword),
                                    !.pc = "responded"]
                  [] OTHER ->
                        [rec EXCEPT !.key = PlanKey(c.pid, query),
                                    !.seen = IF PlanKey(c.pid, query) \in DOMAIN g_ret
                                             THEN g_ret[PlanKey(c.pid, query)]
                                             ELSE NoValue,
                                    !.pc = "p_lookup"])
    /\ UNCHANGED <<query_cache, cache_timestamps, now, env, g_ret>>
    /\ UNCHANGED notLLMVars

\* parse_query_with_llm has returned: the endpoint searches with the plan and
\* answers (routes.py 556-622)
EndpointAnswer(rec) ==
    [rec EXCEPT !.engine = "smart", !.response = SearchResponse(TRUE),
                !.pc = "responded"]

\* parse_query_with_llm returns its plan on the miss path; the plan is
\* remembered as returned for the key while the cache holds it
ReturnPlan(t, rec) ==
    /\ Step(t, EndpointAnswer(rec))
    /\ g_ret' = IF /\ rec.key \notin DOMAIN g_ret
                   /\ rec.key \in DOMAIN query_cache
                   /\ query_cache[rec.key] = rec.value
                THEN Put(g_ret, rec.key, [plan |-> rec.value, at |-> rec.stored_at])
                ELSE g_ret

\* _get_cached_plan: `if key in _query_cache` (llm_query.py 361)
PLookup(t) ==
    /\ th[t].pc = "p_lookup"
    /\ Step(t, IF th[t].key \in DOMAIN query_cache
               THEN [th[t] EXCEPT !.pc = "p_ts"]
               ELSE EnterRetryLoop(th[t]))
    /\ UNCHANGED <<query_cache, cache_timestamps, now, env, g_ret, requests>>
    /\ UNCHANGED notLLMVars

\* `timestamp = _cache_timestamps.get(key, 0)` (llm_query.py 362)
PTimestamp(t) ==
    /\ th[t].pc = "p_ts"
    /\ Step(t, [th[t] EXCEPT !.timestamp = TsGet(cache_timestamps, th[t].key, 0),
                             !.pc = "p_time"])
    /\ UNCHANGED <<query_cache, cache_timestamps, now, env, g_ret, requests>>
    /\ UNCHANGED notLLMVars

\* `if time.time() - timestamp < SMART_SEARCH_CACHE_TTL` (llm_query.py 363)
PCheckTTL(t) ==
    /\ th[t].pc = "p_time"
    /\ Step(t, IF now - th[t].timestamp < CacheTTL
               THEN [th[t] EXCEPT !.timestamp = 0, !.pc = "p_hit"]
               ELSE [th[t] EXCEPT !.timestamp = 0, !.expired = TRUE,
                                  !.pc = "p_del1"])
    /\ UNCHANGED <<query_cache, cache_timestamps, now, env, g_ret, requests>>
    /\ UNCHANGED notLLMVars

\* `return _query_cache[key]`, then `if cached: return cached`
\* (llm_query.py 364, 625-628)
PHit(t) ==
    /\ th[t].pc = "p_hit"
    /\ Step(t, IF th[t].key \in DOMAIN query_cache
               THEN EndpointAnswer([th[t] EXCEPT !.value = query_cache[th[t].key],
                                                 !.hit = TRUE])
               ELSE EndpointRaise(th[t], "KeyError"))
    /\ UNCHANGED <<query_cache, cache_timestamps, now, env, g_ret, requests>>
    /\ UNCHANGED notLLMVars

\* `del _query_cache[key]` (llm_query.py 367)
PExpire1(t) ==
    /\ th[t].pc = "p_del1"
    /\ IF th[t].key \in DOMAIN query_cache
       THEN /\ query_cache' = Del(query_cache, th[t].key)
            /\ StepForget(t, [th[t] EXCEPT !.pc = "p_del2"], th[t].key)
       ELSE /\ Step(t, EndpointRaise(th[t], "KeyError"))
            /\ UNCHANGED <<query_cache, g_ret>>
    /\ UNCHANGED <<cache_timestamps, now, env, requests>>
    /\ UNCHANGED notLLMVars

\* `del _cache_timestamps[key]`, `return None` (llm_query.py 368-369)
PExpire2(t) ==
    /\ th[t].pc = "p_del2"
    /\ IF th[t].key \in TsKeys(cache_timestamps)
       THEN /\ cache_timestamps' = TsDel(cache_timestamps, th[t].key)
            /\ Step(t, EnterRetryLoop([th[t] EXCEPT !.removed = TRUE]))
       ELSE /\ Step(t, EndpointRaise(th[t], "KeyError"))
            /\ UNCHANGED cache_timestamps
    /\ UNCHANGED <<query_cache, now, env, g_ret, requests>>
    /\ UNCHANGED notLLMVars

\* one pass of the retry loop up to validate_query_plan (llm_query.py 647-665)
PAttempt(t) ==
    /\ th[t].pc = "p_attempt"
    /\ \E o \in env.outcomes :
          LET rec == [th[t] EXCEPT !.llm_calls = @ + 1]
              r == IF o.failure = "none" THEN validate_query_plan(o.dict)
                   ELSE Raise(o.failure)
          IN  Step(t, IF r.kind = "plan"
                      THEN [rec EXCEPT !.value = r,
                                       !.validated_at = IF @ = 0 THEN rec.llm_calls
                                                        ELSE @,
                                       !.pc = "c_set1"]
                      ELSE AttemptFailed(rec, ParseLastError(r.exc)))
    /\ UNCHANGED <<query_cache, cache_timestamps, now, env, g_ret, requests>>
    /\ UNCHANGED notLLMVars

\* _cache_plan: `_query_cache[key] = plan` (llm_query.py 375)
CSet1(t) ==
    /\ th[t].pc = "c_set1"
    /\ query_cache' = Put(query_cache, th[t].key, th[t].value)
    /\ Step(t, [th[t] EXCEPT !.stored = TRUE, !.pc = "c_set2"])
    /\ UNCHANGED <<cache_timestamps, now, env, g_ret, requests>>
    /\ UNCHANGED notLLMVars

\* `_cache_timestamps[key] = time.time()` (llm_query.py 376)
CSet2(t) ==
    /\ th[t].pc = "c_set2"
    /\ cache_timestamps' = TsPut(cache_timestamps, th[t].key, now)
    /\ Step(t, [th[t] EXCEPT !.stored_at = now, !.pc = "c_len"])
    /\ UNCHANGED <<query_cache, now, env, g_ret, requests>>
    /\ UNCHANGED notLLMVars

\* `if len(_query_cache) > 1000`, else `return plan` (llm_query.py 379, 670)
CLen(t) ==
    /\ th[t].pc = "c_len"
    /\ IF Cardinality(DOMAIN query_cache) > CacheLimit
       THEN /\ Step(t, [th[t] EXCEPT !.pc = "c_min"])
            /\ UNCHANGED g_ret
       ELSE ReturnPlan(t, th[t])
    /\ UNCHANGED <<query_cache, cache_timestamps, now, env, requests>>
    /\ UNCHANGED notLLMVars

\* `oldest_key = min(_cache_timestamps, key=_cache_timestamps.get)`
\* (llm_query.py 380); min() of an empty dict raises ValueError, which the
\* retry loop catches
CMin(t) ==
    /\ th[t].pc = "c_min"
    /\ Step(t, IF cache_timestamps = <<>>
               THEN AttemptFailed(th[t], ParseLastError("ValueError"))
               ELSE [th[t] EXCEPT !.oldest_key = TsOldest(cache_timestamps),
                                  !.pc = "c_del1"])
    /\ UNCHANGED <<query_cache, cache_timestamps, now, env, g_ret, requests>>
    /\ UNCHANGED notLLMVars

\* `del _query_cache[oldest_key]` (llm_query.py 381); its KeyError is caught
\* by the retry loop
CDel1(t) ==
    /\ th[t].pc = "c_del1"
    /\ IF th[t].oldest_key \in DOMAIN query_cache
       THEN /\ query_cache' = Del(query_cache, th[t].oldest_key)
            /\ StepForget(t, [th[t] EXCEPT !.pc = "c_del2"], th[t].oldest_key)
       ELSE /\ Step(t, AttemptFailed(th[t], ParseLastError("KeyError")))
            /\ UNCHANGED <<query_cache, g_ret>>
    /\ UNCHANGED <<cache_timestamps, now, env, requests>>
    /\ UNCHANGED notLLMVars

\* `del _cache_timestamps[oldest_key]`, `return plan` (llm_query.py 382, 670)
CDel2(t) ==
    /\ th[t].pc = "c_del2"
    /\ IF th[t].oldest_key \in TsKeys(cache_timestamps)
       THEN /\ cache_timestamps' = TsDel(cache_timestamps, th[t].oldest_key)
            /\ ReturnPlan(t, th[t])
       ELSE /\ Step(t, AttemptFailed(th[t], ParseLastError("KeyError")))
            /\ UNCHANGED <<cache_timestamps, g_ret>>
    /\ UNCHANGED <<query_cache, now, env, requests>>
    /\ UNCHANGED notLLMVars

\* analyze_query: `if cache_key_hash in _query_cache` (llm_query.py 534)
ALookup(t) ==
    /\ th[t].pc = "a_lookup"
    /\ Step(t, IF th[t].key \in DOMAIN query_cache
               THEN [th[t] EXCEPT !.pc = "a_ts"]
               ELSE EnterRetryLoop(th[t]))
    /\ UNCHANGED <<query_cache, cache_timestamps, now, env, g_ret, requests>>
    /\ UNCHANGED notLLMVars

\* `timestamp = _cache_timestamps.get(cache_key_hash, 0)` (llm_query.py 535)
ATimestamp(t) ==
    /\ th[t].pc = "a_ts"
    /\ Step(t, [th[t] EXCEPT !.timestamp = TsGet(cache_timestamps, th[t].key, 0),
                             !.pc = "a_time"])
    /\ UNCHANGED <<query_cache, cache_timestamps, now, env, g_ret, requests>>
    /\ UNCHANGED notLLMVars

\* `if time.time() - timestamp < SMART_SEARCH_CACHE_TTL` (llm_query.py 536);
\* an expired entry is left where it is
ACheckTTL(t) ==
    /\ th[t].pc = "a_time"
    /\ Step(t, IF now - th[t].timestamp < CacheTTL
               THEN [th[t] EXCEPT !.timestamp = 0, !.pc = "a_hit"]
               ELSE EnterRetryLoop([th[t] EXCEPT !.timestamp = 0,
                                                 !.expired = TRUE]))
    /\ UNCHANGED <<query_cache, cache_timestamps, now, env, g_ret, requests>>
    /\ UNCHANGED notLLMVars

\* `return _query_cache[cache_key_hash]` (llm_query.py 538)
AHit(t) ==
    /\ th[t].pc = "a_hit"
    /\ Step(t, IF th[t].key \in DOMAIN query_cache
               THEN [th[t] EXCEPT !.value = query_cache[th[t].key],
                                  !.hit = TRUE,
                                  !.response = [kind |-> "return",
                                                value |-> query_cache[th[t].key]],
                                  !.pc = "responded"]
               ELSE AnalyzeRaise(th[t], "KeyError"))
    /\ UNCHANGED <<query_cache, cache_timestamps, now, env, g_ret, requests>>
    /\ UNCHANGED notLLMVars

\* one pass of the retry loop up to validate_query_analysis
\* (llm_query.py 555-575)
AAttempt(t) ==
    /\ th[t].pc = "a_attempt"
    /\ \E o \in env.outcomes :
          LET rec == [th[t] EXCEPT !.llm_calls = @ + 1]
              r == IF o.failure = "none" THEN validate_query_analysis(o.dict)
                   ELSE Raise(o.failure)
          IN  Step(t, IF r.kind = "analysis"
                      THEN [rec EXCEPT !.value = r,
                                       !.validated_at = IF @ = 0 THEN rec.llm_calls
                                                        ELSE @,
                                       !.pc = "a_set1"]
                      ELSE AttemptFailed(rec, AnalyzeLastError(r.exc)))
    /\ UNCHANGED <<query_cache, cache_timestamps, now, env, g_ret, requests>>
    /\ UNCHANGED notLLMVars

\* `_query_cache[cache_key_hash] = analysis` (llm_query.py 578); a plan that
\* was returned for this key is replaced, not removed
ASet1(t) ==
    /\ th[t].pc = "a_set1"
    /\ query_cache' = Put(query_cache, th[t].key, th[t].value)
    /\ Step(t, [th[t] EXCEPT !.stored = TRUE, !.pc = "a_set2"])
    /\ UNCHANGED <<cache_timestamps, now, env, g_ret, requests>>
    /\ UNCHANGED notLLMVars

\* `_cache_timestamps[cache_key_hash] = time.time()`, `return analysis`
\* (llm_query.py 579-581)
ASet2(t) ==
    /\ th[t].pc = "a_set2"
    /\ cache_timestamps' = TsPut(cache_timestamps, th[t].key, now)
    /\ Step(t, [th[t] EXCEPT !.stored_at = now,
                             !.response = [kind |-> "return", value |-> th[t].value],
                             !.pc = "responded"])
    /\ UNCHANGED <<query_cache, now, env, g_ret, requests>>
    /\ UNCHANGED notLLMVars

\* the response is sent; the thread takes the next request
Finish(t) ==
    /\ th[t].pc = "responded"
    /\ Step(t, IdleThread)
    /\ UNCHANGED <<query_cache, cache_timestamps, now, env, g_ret, requests>>
    /\ UNCHANGED notLLMVars

\* time passes
Tick ==
    /\ now < ClockStart + MaxTicks
    /\ now' = now + 1
    /\ UNCHANGED <<query_cache, cache_timestamps, env, th, g_ret, requests>>
    /\ UNCHANGED notLLMVars

(***************************************************************************)
(* Index loading for one project: create_app (__init__.py 44-86), the      *)
(* download thread (blob_storage.py 93-174), the thread that waits for the *)
(* download (__init__.py 66-77), the pre-load thread (routes.py 103-174)   *)
(* and the request handlers that call load_project_index (routes.py 33-86).*)
(* Entering a `with _preload_lock:` or `with _download_lock:` block is one  *)
(* step, the block's body with the release is the next; every other access *)
(* to a shared dict is one step.                                           *)
(***************************************************************************)
Handlers == {"h1", "h2"}
HandlerKinds == {"page", "stats", "keyword", "smart"}

FileNamed(name) == CHOOSE d \in DocFiles : d.filename = name

\* the project's index files: a document, a file json.load rejects and a
\* document without file_type
IndexFiles == <<FileNamed("f1"), Malformed, FileNamed("f3")>>

\* state.get(field, False) on an entry of _preload_states / _download_states
StateGet(state, field) == IF state = NoResult THEN FALSE ELSE state[field]

InProgress == [in_progress |-> TRUE, complete |-> FALSE]
Complete == [in_progress |-> FALSE, complete |-> TRUE]

\* `json.load(f)` of metadata.json raises (routes.py 61-63, 118-120)
MetadataUnreadable(d) == d.metadata /\ d.corrupt

\* the body of the load: every file of the texts folder, then the totals
\* (routes.py 57-81, 114-143)
ReadIndex(d) == LoadFiles(d.texts)

LoadedMetadata(index) ==
    [total_docs |-> Len(index),
     total_pages |-> SumSeq([i \in DOMAIN index |-> Len(index[i].pages)])]

\* the two loading returns of load_project_index (routes.py 51, 55)
LoadingMetadata(message) ==
    [total_docs |-> 0, total_pages |-> 0, loading |-> TRUE,
     loading_message |-> message]

\* what the handler answers with the pair load_project_index returned
\* (routes.py 484-490, 493-517, 556-622, 704-710)
HandlerResponse(kind, index, metadata) ==
    CASE kind \in {"page", "stats"} -> metadata
      [] kind = "keyword" ->
            search_index(index, <<"a">>, 1, DefaultPerPage, None)
      [] kind = "smart" ->
            smart_search_index(index, QueryPlan(<< <<"a">> >>, <<>>, <<>>, <<>>),
                               1, DefaultPerPage, None)

IdleHandler ==
    [pc |-> "idle", kind |-> None, index |-> <<>>, metadata |-> NoResult,
     response |-> NoResult,
     \* history: load_project_index returned one of its loading pairs
     saw_loading |-> FALSE]

IndexIdle ==
    /\ indexes = NoResult
    /\ metadatas = NoResult
    /\ preload_states = NoResult
    /\ download_states = NoResult
    /\ disk = None
    /\ blob = None
    /\ bg = None
    /\ hd = <<>>
    /\ g_loads = 0

\* the download threads a process can have for the project, and the field of
\* bg that counts the blobs each has handled
DownloadThreads == {"download", "download2"}
FilesOf(d) == IF d = "download" THEN "files" ELSE "files2"

\* what can go wrong in a download: making the folders or the client
\* (blob_storage.py 109-114), listing the blobs (119-122), reading a blob (74)
Faults == {"none", "setup", "list", "blob"}

\* the local index folder: empty, holding the index of an earlier run, or
\* holding it with a metadata.json that json.load rejects
Disks ==
    {[metadata |-> FALSE, corrupt |-> FALSE, texts |-> <<>>],
     [metadata |-> TRUE, corrupt |-> FALSE, texts |-> IndexFiles],
     [metadata |-> TRUE, corrupt |-> TRUE, texts |-> IndexFiles]}

\* no thread is running yet
StartThreads ==
    [main |-> "start", waiter |-> "off", download |-> "off",
     download2 |-> "off", preload |-> "off", files |-> 0, files2 |-> 0,
     index |-> <<>>, metadata |-> NoResult, served |-> 0, calls |-> 0,
     \* the holders of _preload_lock and _download_lock
     preload_lock |-> None, download_lock |-> None]

\* create_app is about to start the background work: the local folder is
\* empty or holds the index of an earlier run
IndexInit ==
    /\ indexes = NoResult
    /\ metadatas = NoResult
    /\ preload_states = NoResult
    /\ download_states = NoResult
    /\ disk \in Disks
    /\ blob \in [enabled : BOOLEAN, blobs : {<<>>, IndexFiles}, fault : {"none"}]
    /\ bg = StartThreads
    /\ hd = [h \in Handlers |-> IdleHandler]
    /\ g_loads = 0

\* Thread.is_alive() of the download thread d
IsAlive(d) == bg[d] \notin {"off", "done", "raised"}

\* start_background_index_download (blob_storage.py 151-174): the entry it
\* leaves in _download_states and the thread it starts, if any
start_background_index_download ==
    IF disk.metadata
    THEN [state |-> Complete @@ [thread |-> None], thread |-> None]
    ELSE IF /\ download_states # NoResult
            /\ download_states.thread # None
            /\ IsAlive(download_states.thread)
    THEN [state |-> download_states, thread |-> None]
    ELSE LET d == IF bg.download = "off" THEN "download" ELSE "download2"
         IN  [state |-> InProgress @@ [thread |-> d], thread |-> d]

\* the threads after a call of start_background_index_download by a caller
\* that goes on at pc
AfterStart(call, pc) ==
    LET counted == [bg EXCEPT !.main = pc, !.calls = @ + 1]
    IN  IF call.thread = None THEN counted
        ELSE [counted EXCEPT ![call.thread] = "begin"]

\* create_app with blob storage: start_background_index_download
\* (__init__.py 60-63, blob_storage.py 151-174)
MainStartDownload ==
    /\ bg.main = "start"
    /\ blob.enabled
    /\ download_states' = start_background_index_download.state
    /\ bg' = AfterStart(start_background_index_download, "spawn")
    /\ UNCHANGED <<indexes, metadatas, preload_states, disk, blob, hd, g_loads>>
    /\ UNCHANGED notIndexVars

\* a further call of start_background_index_download for the project
\* (blob_storage.py 151-174)
CallStartDownload ==
    /\ bg.calls < MaxStartCalls
    /\ bg.main # "start" \/ ~blob.enabled
    /\ download_states' = start_background_index_download.state
    /\ bg' = AfterStart(start_background_index_download, bg.main)
    /\ UNCHANGED <<indexes, metadatas, preload_states, disk, blob, hd, g_loads>>
    /\ UNCHANGED notIndexVars

\* create_app starts preload_after_download and returns (__init__.py 66-77)
MainSpawnWaiter ==
    /\ bg.main = "spawn"
    /\ bg' = [bg EXCEPT !.main = "done", !.waiter = "poll"]
    /\ UNCHANGED <<indexes, metadatas, preload_states, download_states, disk,
                   blob, hd, g_loads>>
    /\ UNCHANGED notIndexVars

\* create_app without blob storage calls start_index_preload itself
\* (__init__.py 79-83)
MainPreloadDirectly ==
    /\ bg.main = "start"
    /\ ~blob.enabled
    /\ bg' = [bg EXCEPT !.main = "sp_index"]
    /\ UNCHANGED <<indexes, metadatas, preload_states, download_states, disk,
                   blob, hd, g_loads>>
    /\ UNCHANGED notIndexVars

\* download_index_from_blob in the thread d: `with _download_lock:`
\* (blob_storage.py 99)
DownloadLock(d) ==
    /\ bg[d] = "begin"
    /\ bg.download_lock = None
    /\ bg' = [bg EXCEPT ![d] = "begin_locked", !.download_lock = d]
    /\ UNCHANGED <<indexes, metadatas, preload_states, download_states, disk,
                   blob, hd, g_loads>>
    /\ UNCHANGED notIndexVars

\* the state is set under the lock (blob_storage.py 99-100)
DownloadBegin(d) ==
    /\ bg[d] = "begin_locked"
    /\ download_states' = InProgress @@ [thread |-> None]
    /\ bg' = [bg EXCEPT ![d] = "setup", !.download_lock = None]
    /\ UNCHANGED <<indexes, metadatas, preload_states, disk, blob, hd, g_loads>>
    /\ UNCHANGED notIndexVars

\* `if not is_blob_storage_enabled()` ends the download as complete; then the
\* folders and the client are made outside any try: an exception there ends
\* the thread (blob_storage.py 102-114)
DownloadSetup(d) ==
    /\ bg[d] = "setup"
    /\ IF ~blob.enabled
       THEN /\ download_states' = Complete @@ [thread |-> None]
            /\ bg' = [bg EXCEPT ![d] = "done"]
       ELSE /\ bg' = [bg EXCEPT ![d] = IF blob.fault = "setup" THEN "raised"
                                       ELSE "list"]
            /\ UNCHANGED download_states
    /\ UNCHANGED <<indexes, metadatas, preload_states, disk, blob, hd, g_loads>>
    /\ UNCHANGED notIndexVars

\* the blobs are listed; with none, or when the listing raises, the download
\* is complete (blob_storage.py 116-128, 145-148)
DownloadList(d) ==
    /\ bg[d] = "list"
    /\ IF blob.fault = "list" \/ blob.blobs = <<>>
       THEN /\ download_states' = Complete @@ [thread |-> None]
            /\ bg' = [bg EXCEPT ![d] = "done"]
       ELSE /\ bg' = [bg EXCEPT ![d] = "file"]
            /\ UNCHANGED download_states
    /\ UNCHANGED <<indexes, metadatas, preload_states, disk, blob, hd, g_loads>>
    /\ UNCHANGED notIndexVars

\* the local file number k holds content
WriteFile(texts, k, content) ==
    IF k <= Len(texts) THEN [texts EXCEPT ![k] = content]
    ELSE Append(texts, content)

\* one blob is written to the local folder; when reading the blob raises, the
\* file opened for writing stays empty (blob_storage.py 62-78, 136-140)
DownloadFile(d) ==
    /\ bg[d] = "file"
    /\ bg[FilesOf(d)] < Len(blob.blobs)
    /\ LET k == bg[FilesOf(d)] + 1
       IN  disk' = IF blob.fault = "blob"
                   THEN [metadata |-> TRUE, corrupt |-> TRUE,
                         texts |-> WriteFile(disk.texts, k, Malformed)]
                   ELSE [metadata |-> TRUE, corrupt |-> FALSE,
                         texts |-> WriteFile(disk.texts, k, blob.blobs[k])]
    /\ bg' = [bg EXCEPT ![FilesOf(d)] = @ + 1]
    /\ UNCHANGED <<indexes, metadatas, preload_states, download_states, blob,
                   hd, g_loads>>
    /\ UNCHANGED notIndexVars

\* all blobs are written (blob_storage.py 142-144)
DownloadDone(d) ==
    /\ bg[d] = "file"
    /\ bg[FilesOf(d)] = Len(blob.blobs)
    /\ download_states' = Complete @@ [thread |-> None]
    /\ bg' = [bg EXCEPT ![d] = "done"]
    /\ UNCHANGED <<indexes, metadatas, preload_states, disk, blob, hd, g_loads>>
    /\ UNCHANGED notIndexVars

\* preload_after_download going on without waiting for the download
WaiterPoll_NoWait ==
    /\ bg.waiter = "poll"
    /\ bg' = [bg EXCEPT !.waiter = "sp_index"]
    /\ UNCHANGED <<indexes, metadatas, preload_states, download_states, disk,
                   blob, hd, g_loads>>
    /\ UNCHANGED notIndexVars

\* preload_after_download leaves its polling loop (__init__.py 70-73)
WaiterPoll ==
    /\ bg.waiter = "poll"
    /\ StateGet(download_states, "complete")
    /\ bg' = [bg EXCEPT !.waiter = "sp_index"]
    /\ UNCHANGED <<indexes, metadatas, preload_states, download_states, disk,
                   blob, hd, g_loads>>
    /\ UNCHANGED notIndexVars

\* start_index_preload, called by create_app ("main") or by
\* preload_after_download ("waiter"): `if project_id in _indexes: return`
\* (routes.py 160-162)
StartPreloadCheckIndex(c) ==
    /\ bg[c] = "sp_index"
    /\ bg' = [bg EXCEPT ![c] = IF indexes # NoResult THEN "done" ELSE "sp_state"]
    /\ UNCHANGED <<indexes, metadatas, preload_states, download_states, disk,
                   blob, hd, g_loads>>
    /\ UNCHANGED notIndexVars

\* start_index_preload: `with _preload_lock:` (routes.py 164)
StartPreloadLock(c) ==
    /\ bg[c] = "sp_state"
    /\ bg.preload_lock = None
    /\ bg' = [bg EXCEPT ![c] = "sp_state_locked", !.preload_lock = c]
    /\ UNCHANGED <<indexes, metadatas, preload_states, download_states, disk,
                   blob, hd, g_loads>>
    /\ UNCHANGED notIndexVars

\* the in_progress test under the lock (routes.py 164-167)
StartPreloadCheckState(c) ==
    /\ bg[c] = "sp_state_locked"
    /\ bg' = [bg EXCEPT ![c] = IF StateGet(preload_states, "in_progress")
                               THEN "done" ELSE "sp_thread",
                        !.preload_lock = None]
    /\ UNCHANGED <<indexes, metadatas, preload_states, download_states, disk,
                   blob, hd, g_loads>>
    /\ UNCHANGED notIndexVars

\* the thread running _preload_single_index is started (routes.py 169-174)
StartPreloadThread(c) ==
    /\ bg[c] = "sp_thread"
    /\ bg' = [bg EXCEPT ![c] = "done", !.preload = "begin"]
    /\ UNCHANGED <<indexes, metadatas, preload_states, download_states, disk,
                   blob, hd, g_loads>>
    /\ UNCHANGED notIndexVars

\* _preload_single_index: its two `with _preload_lock:` (routes.py 107, 153)
PreloadLock ==
    /\ bg.preload \in {"begin", "finally"}
    /\ bg.preload_lock = None
    /\ bg' = [bg EXCEPT !.preload = IF bg.preload = "begin" THEN "begin_locked"
                                    ELSE "finally_locked",
                        !.preload_lock = "preload"]
    /\ UNCHANGED <<indexes, metadatas, preload_states, download_states, disk,
                   blob, hd, g_loads>>
    /\ UNCHANGED notIndexVars

\* in_progress is set under the lock (routes.py 107-108)
PreloadBegin ==
    /\ bg.preload = "begin_locked"
    /\ preload_states' = InProgress
    /\ bg' = [bg EXCEPT !.preload = "read", !.preload_lock = None]
    /\ UNCHANGED <<indexes, metadatas, download_states, disk, blob, hd, g_loads>>
    /\ UNCHANGED notIndexVars

\* the files are read; when json.load rejects metadata.json the exception is
\* caught and nothing is stored (routes.py 111-143, 150-151)
PreloadRead ==
    /\ bg.preload = "read"
    /\ bg' = IF MetadataUnreadable(disk)
             THEN [bg EXCEPT !.preload = "finally"]
             ELSE [bg EXCEPT !.preload = "store_index",
                             !.index = ReadIndex(disk),
                             !.metadata = LoadedMetadata(ReadIndex(disk))]
    /\ UNCHANGED <<indexes, metadatas, preload_states, download_states, disk,
                   blob, hd, g_loads>>
    /\ UNCHANGED notIndexVars

\* `_indexes[project_id] = index` (routes.py 145)
PreloadStoreIndex ==
    /\ bg.preload = "store_index"
    /\ indexes' = [index |-> bg.index]
    /\ g_loads' = g_loads + 1
    /\ bg' = [bg EXCEPT !.preload = "store_metadata"]
    /\ UNCHANGED <<metadatas, preload_states, download_states, disk, blob, hd>>
    /\ UNCHANGED notIndexVars

\* `_metadatas[project_id] = metadata` (routes.py 146)
PreloadStoreMetadata ==
    /\ bg.preload = "store_metadata"
    /\ metadatas' = bg.metadata
    /\ bg' = [bg EXCEPT !.preload = "finally"]
    /\ UNCHANGED <<indexes, preload_states, download_states, disk, blob, hd,
                   g_loads>>
    /\ UNCHANGED notIndexVars

\* the finally block (routes.py 152-154)
PreloadFinally ==
    /\ bg.preload = "finally_locked"
    /\ preload_states' = Complete
    /\ bg' = [bg EXCEPT !.preload = "done", !.index = <<>>,
                        !.metadata = NoResult, !.preload_lock = None]
    /\ UNCHANGED <<indexes, metadatas, download_states, disk, blob, hd, g_loads>>
    /\ UNCHANGED notIndexVars

\* the handler h replaced by rec
HStep(h, rec) == hd' = [hd EXCEPT ![h] = rec]

\* load_project_index returns (index, metadata) and the handler answers
HReturn(rec, index, metadata) ==
    [rec EXCEPT !.index = index, !.metadata = metadata,
                !.response = HandlerResponse(rec.kind, index, metadata),
                !.pc = "responded"]

\* a request arrives once create_app has returned; the handler calls
\* load_project_index (routes.py 484-517, 556-580, 704-710)
HRequest(h) ==
    /\ hd[h].pc = "idle"
    /\ bg.main = "done"
    /\ bg.served < MaxIndexRequests
    /\ \E kind \in HandlerKinds :
          HStep(h, [hd[h] EXCEPT !.kind = kind, !.pc = "loaded"])
    /\ bg' = [bg EXCEPT !.served = @ + 1]
    /\ UNCHANGED <<indexes, metadatas, preload_states, download_states, disk,
                   blob, g_loads>>
    /\ UNCHANGED notIndexVars

\* `if project_id in _indexes` (routes.py 37)
HCheckLoaded(h) ==
    /\ hd[h].pc = "loaded"
    /\ HStep(h, [hd[h] EXCEPT !.pc = IF indexes # NoResult THEN "get_index"
                                     ELSE "downloading"])
    /\ UNCHANGED <<indexes, metadatas, preload_states, download_states, disk,
                   blob, bg, g_loads>>
    /\ UNCHANGED notIndexVars

\* `_indexes[project_id]` of the return (routes.py 38)
HGetIndex(h) ==
    /\ hd[h].pc = "get_index"
    /\ HStep(h, [hd[h] EXCEPT !.index = indexes.index, !.pc = "get_metadata"])
    /\ UNCHANGED <<indexes, metadatas, preload_states, download_states, disk,
                   blob, bg, g_loads>>
    /\ UNCHANGED notIndexVars

\* `_metadatas[project_id]` of the return (routes.py 38): KeyError while the
\* loader is between its two stores
HGetMetadata(h) ==
    /\ hd[h].pc = "get_metadata"
    /\ HStep(h, IF metadatas # NoResult
                THEN HReturn(hd[h], hd[h].index, metadatas)
                ELSE [hd[h] EXCEPT !.response = Raise("KeyError"),
                                   !.pc = "responded"])
    /\ UNCHANGED <<indexes, metadatas, preload_states, download_states, disk,
                   blob, bg, g_loads>>
    /\ UNCHANGED notIndexVars

\* `is_blob_storage_enabled() and is_index_downloading(project_id)`
\* (routes.py 50)
HCheckDownloading(h) ==
    /\ hd[h].pc = "downloading"
    /\ HStep(h, [hd[h] EXCEPT !.pc =
                    IF blob.enabled /\ StateGet(download_states, "in_progress")
                    THEN "download_complete" ELSE "preloading"])
    /\ UNCHANGED <<indexes, metadatas, preload_states, download_states, disk,
                   blob, bg, g_loads>>
    /\ UNCHANGED notIndexVars

\* `and not is_index_download_complete(project_id)` (routes.py 50-51)
HCheckDownloadComplete(h) ==
    /\ hd[h].pc = "download_complete"
    /\ HStep(h, IF ~StateGet(download_states, "complete")
                THEN HReturn([hd[h] EXCEPT !.saw_loading = TRUE], <<>>,
                             LoadingMetadata("Downloading index files..."))
                ELSE [hd[h] EXCEPT !.pc = "preloading"])
    /\ UNCHANGED <<indexes, metadatas, preload_states, download_states, disk,
                   blob, bg, g_loads>>
    /\ UNCHANGED notIndexVars

\* is_index_preloading: `with _preload_lock:` (routes.py 91)
HLockPreload(h) ==
    /\ hd[h].pc = "preloading"
    /\ bg.preload_lock = None
    /\ HStep(h, [hd[h] EXCEPT !.pc = "preloading_locked"])
    /\ bg' = [bg EXCEPT !.preload_lock = h]
    /\ UNCHANGED <<indexes, metadatas, preload_states, download_states, disk,
                   blob, g_loads>>
    /\ UNCHANGED notIndexVars

\* `if is_index_preloading(project_id)` (routes.py 54-55, 91-93)
HCheckPreloading(h) ==
    /\ hd[h].pc = "preloading_locked"
    /\ HStep(h, IF StateGet(preload_states, "in_progress")
                THEN HReturn([hd[h] EXCEPT !.saw_loading = TRUE], <<>>,
                             LoadingMetadata("Loading documents into memory..."))
                ELSE [hd[h] EXCEPT !.pc = "read"])
    /\ bg' = [bg EXCEPT !.preload_lock = None]
    /\ UNCHANGED <<indexes, metadatas, preload_states, download_states, disk,
                   blob, g_loads>>
    /\ UNCHANGED notIndexVars

\* the files are read; when json.load rejects metadata.json the exception
\* leaves load_project_index (routes.py 57-81)
HRead(h) ==
    /\ hd[h].pc = "read"
    /\ HStep(h, IF MetadataUnreadable(disk)
                THEN [hd[h] EXCEPT !.response = Raise("JSONDecodeError"),
                                   !.pc = "responded"]
                ELSE [hd[h] EXCEPT !.index = ReadIndex(disk),
                                   !.metadata = LoadedMetadata(ReadIndex(disk)),
                                   !.pc = "store_index"])
    /\ UNCHANGED <<indexes, metadatas, preload_states, download_states, disk,
                   blob, bg, g_loads>>
    /\ UNCHANGED notIndexVars

\* `_indexes[project_id] = index` (routes.py 83)
HStoreIndex(h) ==
    /\ hd[h].pc = "store_index"
    /\ indexes' = [index |-> hd[h].index]
    /\ g_loads' = g_loads + 1
    /\ HStep(h, [hd[h] EXCEPT !.pc = "store_metadata"])
    /\ UNCHANGED <<metadatas, preload_states, download_states, disk, blob, bg>>
    /\ UNCHANGED notIndexVars

\* `_metadatas[project_id] = metadata`, `return index, metadata`
\* (routes.py 84-86)
HStoreMetadata(h) ==
    /\ hd[h].pc = "store_metadata"
    /\ metadatas' = hd[h].metadata
    /\ HStep(h, HReturn(hd[h], hd[h].index, hd[h].metadata))
    /\ UNCHANGED <<indexes, preload_states, download_states, disk, blob, bg,
                   g_loads>>
    /\ UNCHANGED notIndexVars

\* the response is sent; the handler takes the next request
HFinish(h) ==
    /\ hd[h].pc = "responded"
    /\ HStep(h, IdleHandler)
    /\ UNCHANGED <<indexes, metadatas, preload_states, download_states, disk,
                   blob, bg, g_loads>>
    /\ UNCHANGED notIndexVars

\* start_background_index_download called for one project, by create_app and
\* by a later caller, under every fault of the download
DownloadInit ==
    /\ indexes = NoResult
    /\ metadatas = NoResult
    /\ preload_states = NoResult
    /\ download_states = NoResult
    /\ disk \in Disks
    /\ blob \in [enabled : BOOLEAN, blobs : {<<>>, IndexFiles}, fault : Faults]
    /\ bg = StartThreads
    /\ hd = <<>>
    /\ g_loads = 0

\* one step of the download thread d
DownloadStep(d) ==
    \/ DownloadLock(d) \/ DownloadBegin(d) \/ DownloadSetup(d)
    \/ DownloadList(d) \/ DownloadFile(d) \/ DownloadDone(d)

(***************************************************************************)
(* Local file serving: project_serve_pdf (routes.py 730-766) and           *)
(* _resolve_excel_path (routes.py 839-886). Paths are POSIX paths.         *)
(***************************************************************************)
SL == "/"
DOT == "."
DOTDOT == <<DOT, DOT>>

\* s.startswith(p)
StartsWith(s, p) == Len(p) <= Len(s) /\ SubSeq(s, 1, Len(p)) = p

\* path.split('/')
RECURSIVE SplitPath(_)
SplitPath(s) ==
    IF s = <<>> THEN << <<>> >>
    ELSE LET rest == SplitPath(Tail(s))
         IN  IF Head(s) = SL THEN << <<>> >> \o rest
             ELSE << <<Head(s)>> \o Head(rest) >> \o Tail(rest)

\* '/'.join(comps)
RECURSIVE JoinPath(_)
JoinPath(comps) ==
    IF comps = <<>> THEN <<>>
    ELSE IF Len(comps) = 1 THEN Head(comps)
    ELSE Head(comps) \o <<SL>> \o JoinPath(Tail(comps))

\* os.path.join(a, b)
path_join(a, b) ==
    IF StartsWith(b, <<SL>>) THEN b
    ELSE IF a = <<>> \/ a[Len(a)] = SL THEN a \o b
    ELSE a \o <<SL>> \o b

\* the loop of os.path.normpath over the components: empty and '.' are
\* dropped, '..' removes the component before it, if there is one to remove
RECURSIVE NormComps(_, _, _)
NormComps(comps, new_comps, initial_slashes) ==
    IF comps = <<>> THEN new_comps
    ELSE LET comp == Head(comps)
         IN  IF comp \in {<<>>, <<DOT>>}
             THEN NormComps(Tail(comps), new_comps, initial_slashes)
             ELSE IF \/ comp # DOTDOT
                     \/ (initial_slashes = 0 /\ new_comps = <<>>)
                     \/ (new_comps # <<>> /\ new_comps[Len(new_comps)] = DOTDOT)
             THEN NormComps(Tail(comps), Append(new_comps, comp), initial_slashes)
             ELSE IF new_comps # <<>>
             THEN NormComps(Tail(comps), SubSeq(new_comps, 1, Len(new_comps) - 1),
                            initial_slashes)
             ELSE NormComps(Tail(comps), new_comps, initial_slashes)

\* os.path.normpath(path)
normpath(path) ==
    IF path = <<>> THEN <<DOT>>
    ELSE LET initial_slashes ==
                 IF ~StartsWith(path, <<SL>>) THEN 0
                 ELSE IF StartsWith(path, <<SL, SL>>) /\ ~StartsWith(path, <<SL, SL, SL>>)
                 THEN 2 ELSE 1
             body == JoinPath(NormComps(SplitPath(path), <<>>, initial_slashes))
             full == [i \in 1..initial_slashes |-> SL] \o body
         IN  IF full = <<>> THEN <<DOT>> ELSE full

\* abort(status)
Abort(status) == [status |-> status, served |-> None]

\* the local branch of both handlers: the join, the prefix test and the
\* existence test (routes.py 748-766, 870-886)
LocalFile(source_folder, filepath, files) ==
    IF source_folder = <<>> THEN Abort(404)
    ELSE LET full_path == normpath(path_join(source_folder, filepath))
         IN  IF ~StartsWith(full_path, normpath(source_folder)) THEN Abort(403)
             ELSE IF full_path \notin files THEN Abort(404)
             ELSE [status |-> 200, served |-> full_path]

\* the source folders a project is configured with: none, /s, /s/ and s
SourceFolders == {<<>>, <<SL, "s">>, <<SL, "s", SL>>, <<"s">>}

\* the requested paths
Filepaths ==
    {<<"x">>, <<DOT, SL, "x">>, <<"s">>, <<DOT, DOT, SL, "x">>,
     <<DOT, DOT, SL, "s", "x">>, <<DOT, DOT, SL, "s", "x", SL, "x">>,
     <<DOT, DOT, SL, "s", SL, "x">>, <<SL, "x">>, <<SL, "s", SL, "x">>,
     DOTDOT, <<"x", SL, DOT, DOT, SL, DOT, DOT>>}

\* the files of the machine: /s/x and s/x in the source folders, /sx/x, sx/x,
\* /sx and sx beside them, /x and x above them
LocalFiles ==
    {<<SL, "s", SL, "x">>, <<"s", SL, "x">>,
     <<SL, "s", "x", SL, "x">>, <<"s", "x", SL, "x">>,
     <<SL, "s", "x">>, <<"s", "x">>, <<SL, "x">>, <<"x">>}

\* the blobs of the PDF container
PdfBlobs == {<<"x">>}

ServeIdle ==
    /\ f_pc = "idle"
    /\ f_request = None
    /\ f_response = NoResult

\* a request for a file of the project
ServeInit ==
    /\ f_pc = "ready"
    /\ f_request \in [endpoint : {"pdf", "excel"}, blob_enabled : BOOLEAN,
                      source_folder : SourceFolders, filepath : Filepaths]
    /\ f_response = NoResult

\* project_serve_pdf (routes.py 730-766): the SAS redirect with blob storage,
\* the local file without
ProjectServePdf ==
    /\ f_pc = "ready"
    /\ f_request.endpoint = "pdf"
    /\ f_response' =
          IF f_request.blob_enabled
          THEN IF f_request.filepath \notin PdfBlobs THEN Abort(404)
               ELSE [status |-> 302, served |-> None]
          ELSE LocalFile(f_request.source_folder, f_request.filepath, LocalFiles)
    /\ f_pc' = "done"
    /\ UNCHANGED f_request
    /\ UNCHANGED notServeVars

\* _resolve_excel_path (routes.py 839-886): the blob downloaded to a
\* temporary file (or the download failing) with blob storage, the local
\* file without
ResolveExcelPath ==
    /\ f_pc = "ready"
    /\ f_request.endpoint = "excel"
    /\ \E downloaded \in BOOLEAN :
          f_response' =
             IF f_request.blob_enabled
             THEN IF f_request.filepath \notin PdfBlobs THEN Abort(404)
                  ELSE IF downloaded THEN [status |-> 200, served |-> <<"t", "m", "p">>]
                  ELSE Abort(500)
             ELSE LocalFile(f_request.source_folder, f_request.filepath, LocalFiles)
    /\ f_pc' = "done"
    /\ UNCHANGED f_request
    /\ UNCHANGED notServeVars

(***************************************************************************)
(* Specifications.                                                         *)
(***************************************************************************)
InitSearch ==
    SearchInit /\ ValidateIdle /\ LLMIdle /\ IndexIdle /\ ServeIdle

NextSearch == SearchIndex \/ SmartSearchIndex

SpecSearch == InitSearch /\ [][NextSearch]_vars

InitValidate ==
    ValidateInit /\ SearchIdle /\ LLMIdle /\ IndexIdle /\ ServeIdle

NextValidate == ValidateQueryPlan

SpecValidate == InitValidate /\ [][NextValidate]_vars

InitValidators ==
    ValidatorsInit /\ SearchIdle /\ LLMIdle /\ IndexIdle /\ ServeIdle

NextValidators == ValidateQueryPlan \/ ValidateQueryAnalysis

SpecValidators == InitValidators /\ [][NextValidators]_vars

InitLLM ==
    LLMInit /\ SearchIdle /\ ValidateIdle /\ IndexIdle /\ ServeIdle

NextLLM ==
    \/ Tick
    \/ \E t \in DOMAIN th :
          \/ Request(t)
          \/ PLookup(t) \/ PTimestamp(t) \/ PCheckTTL(t) \/ PHit(t)
          \/ PExpire1(t) \/ PExpire2(t) \/ PAttempt(t)
          \/ CSet1(t) \/ CSet2(t) \/ CLen(t) \/ CMin(t) \/ CDel1(t) \/ CDel2(t)
          \/ ALookup(t) \/ ATimestamp(t) \/ ACheckTTL(t) \/ AHit(t)
          \/ AAttempt(t) \/ ASet1(t) \/ ASet2(t)
          \/ Finish(t)

SpecLLM == InitLLM /\ [][NextLLM]_vars

InitSmart ==
    SmartInit /\ SearchIdle /\ ValidateIdle /\ IndexIdle /\ ServeIdle

SpecSmart == InitSmart /\ [][NextLLM]_vars

InitIndex ==
    IndexInit /\ SearchIdle /\ ValidateIdle /\ LLMIdle /\ ServeIdle

NextIndex ==
    \/ MainStartDownload \/ MainSpawnWaiter \/ MainPreloadDirectly
    \/ DownloadLock("download") \/ DownloadBegin("download")
    \/ DownloadSetup("download") \/ DownloadList("download")
    \/ DownloadFile("download") \/ DownloadDone("download")
    \/ WaiterPoll
    \/ \E c \in {"main", "waiter"} :
          \/ StartPreloadCheckIndex(c)
          \/ StartPreloadLock(c) \/ StartPreloadCheckState(c)
          \/ StartPreloadThread(c)
    \/ PreloadLock \/ PreloadBegin \/ PreloadRead \/ PreloadStoreIndex \/ PreloadStoreMetadata
    \/ PreloadFinally
    \/ \E h \in Handlers :
          \/ HRequest(h)
          \/ HCheckLoaded(h) \/ HGetIndex(h) \/ HGetMetadata(h)
          \/ HCheckDownloading(h) \/ HCheckDownloadComplete(h)
          \/ HLockPreload(h) \/ HCheckPreloading(h)
          \/ HRead(h) \/ HStoreIndex(h) \/ HStoreMetadata(h)
          \/ HFinish(h)

SpecIndex == InitIndex /\ [][NextIndex]_vars

InitDownload ==
    DownloadInit /\ SearchIdle /\ ValidateIdle /\ LLMIdle /\ ServeIdle

NextDownload ==
    \/ MainStartDownload \/ CallStartDownload \/ MainSpawnWaiter
    \/ \E d \in DownloadThreads : DownloadStep(d)
    \/ WaiterPoll

SpecDownload == InitDownload /\ [][NextDownload]_vars

\* every started thread keeps being scheduled
SpecDownloadFair ==
    /\ SpecDownload
    /\ \A d \in DownloadThreads : WF_vars(DownloadStep(d))
    /\ WF_vars(WaiterPoll)

InitServe ==
    ServeInit /\ SearchIdle /\ ValidateIdle /\ LLMIdle /\ IndexIdle

NextServe == ProjectServePdf \/ ResolveExcelPath

SpecServe == InitServe /\ [][NextServe]_vars

(***************************************************************************)
(* Claims about the search engine.                                         *)
(***************************************************************************)
\* the well-formed files of the folder, as (file, page) pairs
DiskPages ==
    {<<i, j>> \in (DOMAIN s_disk) \X (1..2) :
        /\ s_disk[i] # Malformed
        /\ j \in DOMAIN s_disk[i].pages}

\* the claim's condition for the page j of the file i
ShouldMatch(i, j) ==
    LET file == s_disk[i]
        given == s_args.file_type_filter \notin {None, ""}
        type == IF file.file_type = Missing THEN "pdf" ELSE file.file_type
        text == Lower(file.pages[j].text)
        terms == parse_search_terms(s_args.query)
    IN  /\ (~given \/ type = s_args.file_type_filter)
        /\ \A k \in DOMAIN terms :
              \E at \in 1..Len(text) :
                 /\ at + Len(terms[k]) - 1 <= Len(text)
                 /\ \A c \in 1..Len(terms[k]) : text[at + c - 1] = terms[k][c]

InMatches(i, j) ==
    \E k \in DOMAIN s_matches :
        /\ s_matches[k].filename = s_disk[i].filename
        /\ s_matches[k].page = s_disk[i].pages[j].page_num

KeywordDone ==
    /\ s_pc = "done"
    /\ s_args.op = "keyword"
    /\ parse_search_terms(s_args.query) # <<>>

\* C1: after search_index on a loaded index with a non-empty parsed term list,
\* the full match list holds a page exactly when the file-type filter is absent
\* or equals the document's file_type (missing counting as 'pdf') and every
\* parsed term is a substring of the page's lower-cased text; total_matches is
\* the number of such pages.
C1_AndSearch ==
    KeywordDone =>
        /\ \A pg \in DiskPages : InMatches(pg[1], pg[2]) <=> ShouldMatch(pg[1], pg[2])
        /\ s_result.total_matches
              = Cardinality({pg \in DiskPages : ShouldMatch(pg[1], pg[2])})
        /\ Len(s_matches) = s_result.total_matches

C1_Witness ==
    /\ KeywordDone
    /\ Len(parse_search_terms(s_args.query)) = 2
    /\ s_args.file_type_filter = "pdf"
    /\ \E pg \in DiskPages :
          /\ s_disk[pg[1]].file_type = Missing
          /\ InMatches(pg[1], pg[2])
    /\ \E pg \in DiskPages :
          /\ s_disk[pg[1]].file_type = Missing
          /\ ~InMatches(pg[1], pg[2])
    /\ \E pg \in DiskPages :
          /\ s_disk[pg[1]].file_type = "excel"
          /\ ~InMatches(pg[1], pg[2])

\* C2: every result of search_index and smart_search_index has total_pages equal
\* to the ceiling of total_matches / per_page (the least k with
\* k * per_page >= total_matches), which is 0 exactly when total_matches is 0.
C2_TotalPagesCeiling ==
    s_pc = "done" =>
        LET tp == s_result.total_pages
            tm == s_result.total_matches
            pp == s_args.per_page
        IN  /\ tp >= 0
            /\ tp * pp >= tm
            /\ tp > 0 => (tp - 1) * pp < tm
            /\ (tp = 0) <=> (tm = 0)

C2_Witness ==
    /\ s_pc = "done"
    /\ s_args.op = "smart"
    /\ s_args.per_page = 2
    /\ s_result.total_matches = 3
    /\ s_result.total_pages = 2

(***************************************************************************)
(* Claims about validate_query_plan.                                       *)
(***************************************************************************)
\* the usable (non-empty after sanitizing) terms of a field, capped at n
Usable(value, n) ==
    IF SanitizedField(value).ok THEN Prefix(SanitizedField(value).v, n) ELSE <<>>

\* C3: validate_query_plan either returns a QueryPlan with at least one
\* non-empty sanitized required term or raises LLMValidationError; with no
\* usable required term the required terms are the sanitized person names, else
\* the sanitized locations, and the error is raised only if both are empty.
C3_PlanOrValidationError ==
    v_pc = "done" =>
        LET given == Usable(Get(v_plan_dict, "required_terms"), LongList)
            persons == Usable(Get(v_plan_dict, "person_names"), MaxPersonNames)
            places == Usable(Get(v_plan_dict, "locations"), MaxLocations)
        IN  \/ /\ v_result.kind = "plan"
               /\ v_result.required_terms # <<>>
               /\ \A i \in DOMAIN v_result.required_terms :
                     v_result.required_terms[i] # <<>>
               /\ given = <<>> =>
                     v_result.required_terms
                        = (IF persons # <<>> THEN persons ELSE places)
            \/ /\ v_result.kind = "raise"
               /\ v_result.exc = "LLMValidationError"
               /\ given = <<>> /\ persons = <<>> /\ places = <<>>


(***************************************************************************)
(* The query cache and the retry loop                                      *)
(***************************************************************************)
\* the smart-search requests that have been answered
SmartDone(t) == th[t].kind = "smart" /\ th[t].pc = "responded"

\* C4: when parse_query_with_llm has returned a plan for a key, a later call
\* with the same key, answered before the TTL has run out since the plan was
\* cached and with the entry never removed in between, returns that plan and
\* makes no LLM call.
C4_CacheHitIdentical ==
    \A t \in DOMAIN th :
        (/\ SmartDone(t)
         /\ th[t].seen # NoValue
         /\ now - th[t].seen.at < CacheTTL)
        => /\ th[t].exc = None
           /\ th[t].value = th[t].seen.plan
           /\ th[t].llm_calls = 0

\* C5: an entry is never returned by a lookup that found it expired, and the
\* lookup that finds an entry expired has removed it, plan and timestamp,
\* before an LLM call is made (parse_query_with_llm and analyze_query).
C5_ExpiredRemoved ==
    \A t \in DOMAIN th :
        th[t].expired
        => /\ ~th[t].hit
           /\ th[t].llm_calls > 0 => th[t].removed

\* C6: one call makes at most 3 LLM calls, makes none after the first attempt
\* whose output validates, raises the error of the last attempt when all
\* attempts failed, and has cached nothing when it raises.
C6_BoundedRetries ==
    \A t \in DOMAIN th :
        /\ th[t].llm_calls <= MaxRetries + 1
        /\ th[t].validated_at > 0 => th[t].llm_calls = th[t].validated_at
        /\ (th[t].pc = "responded" /\ th[t].exc # None)
           => /\ ~th[t].stored
              /\ th[t].llm_calls > 0
                 => /\ th[t].llm_calls = MaxRetries + 1
                    /\ th[t].exc = th[t].last_error

(***************************************************************************)
(* The smart-search endpoint                                               *)
(***************************************************************************)
LLMErrorClasses == {"LLMTimeoutError", "LLMValidationError", "LLMError"}

\* smart search is switched off and the request has a query
AnsweredDisabled(t) ==
    SmartDone(t) /\ ~env.smart /\ th[t].response # SmartEmptyResponse

\* parsing failed on every attempt
AnsweredFailed(t) ==
    /\ SmartDone(t)
    /\ th[t].exc \in LLMErrorClasses
    /\ th[t].llm_calls = MaxRetries + 1

\* C7, as stated: when smart search is disabled or parsing fails on every
\* attempt, the query is answered by the keyword engine and not by an error.
C7_FallsBackToKeyword ==
    \A t \in DOMAIN th :
        (AnsweredDisabled(t) \/ AnsweredFailed(t))
        => th[t].engine = "keyword" /\ th[t].response.status = 200

\* C7, amended: in these cases the endpoint runs no search; it answers with
\* an error (503 when disabled, the status of the error's class otherwise)
\* that carries fallback_available = keyword search is enabled.
C7_ErrorWithFallbackFlag ==
    \A t \in DOMAIN th :
        /\ AnsweredDisabled(t)
           => /\ th[t].engine = None
              /\ th[t].response.status = 503
              /\ th[t].response.fallback_available = env.keyword
        /\ AnsweredFailed(t)
           => /\ th[t].engine = None
              /\ th[t].response.status \in {504, 400, 503}
              /\ th[t].response.fallback_available = env.keyword

\* smart search off, keyword search off: the flag says there is no fallback
C7_Witness ==
    \E t \in DOMAIN th :
        /\ AnsweredDisabled(t)
        /\ ~env.keyword
        /\ th[t].response.fallback_available = FALSE

\* C8: LLMTimeoutError gives 504 'timeout', LLMValidationError gives 400
\* 'validation', any other LLMError gives 503 'service_error'; the three
\* statuses differ; the response carries fallback_available = keyword search
\* is enabled.
C8_ErrorStatusMapping ==
    \A t \in DOMAIN th :
        (SmartDone(t) /\ th[t].exc \in LLMErrorClasses)
        => /\ th[t].exc = "LLMTimeoutError"
              => /\ th[t].response.status = 504
                 /\ th[t].response.error_type = "timeout"
           /\ th[t].exc = "LLMValidationError"
              => /\ th[t].response.status = 400
                 /\ th[t].response.error_type = "validation"
           /\ th[t].exc = "LLMError"
              => /\ th[t].response.status = 503
                 /\ th[t].response.error_type = "service_error"
           /\ th[t].response.fallback_available = env.keyword
           /\ Cardinality({SmartErrorResponse(e, env.keyword).status :
                              e \in LLMErrorClasses}) = 3

\* a timeout on the last attempt, after an attempt that failed otherwise, with
\* keyword search off
C8_Witness ==
    \E t \in DOMAIN th :
        /\ SmartDone(t)
        /\ th[t].exc = "LLMTimeoutError"
        /\ th[t].llm_calls = MaxRetries + 1
        /\ th[t].response.status = 504
        /\ ~env.keyword


(***************************************************************************)
(* Index loading                                                           *)
(***************************************************************************)
\* C9: the project's files are read and stored into the in-memory index at
\* most once, whatever the interleaving of start_index_preload, the pre-load
\* thread and the handlers calling load_project_index.
C9_LoadsOnce == g_loads <= 1

\* the response carries the loading mark
MarkedLoading(response) ==
    "loading" \in DOMAIN response /\ response.loading = TRUE

\* C10: a handler whose load_project_index found the download or the
\* pre-load in progress answers with a response marked as loading (search
\* page, stats, keyword search and smart search alike).
C10_LoadingResponse ==
    \A h \in DOMAIN hd :
        (hd[h].pc = "responded" /\ hd[h].saw_loading)
        => MarkedLoading(hd[h].response)

\* the threads of the index machine
IndexThreads == Handlers \cup {"main", "waiter", "download", "preload"}

\* the shared dicts the next statement of a handler in load_project_index
\* reads or writes (routes.py 37-38, 50, 54, 83-84)
HandlerAccess(h) ==
    CASE hd[h].pc \in {"loaded", "get_index", "store_index"} -> {"_indexes"}
      [] hd[h].pc \in {"get_metadata", "store_metadata"} -> {"_metadatas"}
      [] hd[h].pc = "downloading" /\ blob.enabled -> {"_download_states"}
      [] hd[h].pc = "download_complete" -> {"_download_states"}
      [] hd[h].pc = "preloading_locked" -> {"_preload_states"}
      [] OTHER -> {}

\* the same for create_app and preload_after_download (blob_storage.py 83,
\* 156-173, routes.py 160, 165)
StarterAccess(c) ==
    CASE bg[c] = "start" /\ blob.enabled -> {"_download_states"}
      [] bg[c] = "poll" -> {"_download_states"}
      [] bg[c] = "sp_index" -> {"_indexes"}
      [] bg[c] = "sp_state_locked" -> {"_preload_states"}
      [] OTHER -> {}

\* the same for download_index_from_blob (blob_storage.py 100, 104, 127, 143)
DownloadAccess ==
    CASE bg.download = "begin_locked" -> {"_download_states"}
      [] bg.download = "setup" /\ ~blob.enabled -> {"_download_states"}
      [] bg.download = "list" /\ blob.blobs = <<>> -> {"_download_states"}
      [] bg.download = "file" /\ bg.files = Len(blob.blobs) ->
            {"_download_states"}
      [] OTHER -> {}

\* the same for _preload_single_index (routes.py 108, 145, 146, 154)
PreloadAccess ==
    CASE bg.preload \in {"begin_locked", "finally_locked"} ->
            {"_preload_states"}
      [] bg.preload = "store_index" -> {"_indexes"}
      [] bg.preload = "store_metadata" -> {"_metadatas"}
      [] OTHER -> {}

NextAccess(thread) ==
    CASE thread \in Handlers -> HandlerAccess(thread)
      [] thread \in {"main", "waiter"} -> StarterAccess(thread)
      [] thread = "download" -> DownloadAccess
      [] thread = "preload" -> PreloadAccess

\* the lock of the module that owns the dict (routes.py 27-30,
\* blob_storage.py 18-19)
LockOf(dict) ==
    IF dict = "_download_states" THEN "download_lock" ELSE "preload_lock"

\* C11: a thread whose next statement reads or writes the in-memory index
\* dict, the metadata dict, the download states or the pre-load states holds
\* the corresponding lock.
C11_AccessUnderLock ==
    \A thread \in IndexThreads :
        \A dict \in NextAccess(thread) : bg[LockOf(dict)] = thread

(***************************************************************************)
(* Claims about the caches under concurrency.                              *)
(***************************************************************************)
\* the thread t executes `_query_cache[key] = plan` in this step
StoresPlan(t) == th[t].pc = "c_set1" /\ th'[t].pc = "c_set2"

\* C12: caching is first-writer-wins: when a thread that missed the cache
\* stores its plan under a key for which another thread has stored a value in
\* the meantime, the value stored first is kept.
C12_FirstWriterWins ==
    [][\A t \in DOMAIN th :
          (StoresPlan(t) /\ th[t].key \in DOMAIN query_cache)
          => query_cache'[th[t].key] = query_cache[th[t].key]]_vars

\* the call of thread t returns the value it has stored: the last step of
\* _cache_plan (llm_query.py 379, 382) or of analyze_query's store (579-581)
StoreReturns(t) ==
    /\ th[t].pc \in {"c_len", "c_del2", "a_set2"}
    /\ th'[t].pc = "responded"
    /\ th'[t].exc = None

\* the thread t executes `del _query_cache[oldest_key]` in this step
Evicts(t) == th[t].pc = "c_del1" /\ th'[t].pc = "c_del2"

\* the size limit holds when a store returns
SizeLimitedAfterStore ==
    \A t \in DOMAIN th :
        StoreReturns(t) => Cardinality(DOMAIN query_cache') <= CacheLimit

\* the entry evicted has the least timestamp and is not the one just stored
EvictsOldest ==
    \A t \in DOMAIN th :
        Evicts(t)
        => /\ th[t].oldest_key # th[t].key
           /\ \A k \in TsKeys(cache_timestamps) :
                 TsGet(cache_timestamps, th[t].oldest_key, 0)
                    <= TsGet(cache_timestamps, k, 0)

\* C13: once a store of parse_query_with_llm or analyze_query has completed
\* the cache holds at most the limit of entries (1000 in the program), and
\* the entry removed on overflow is the one with the oldest timestamp, never
\* the entry just stored.
C13_CacheSizeLimit == [][SizeLimitedAfterStore /\ EvictsOldest]_vars

(***************************************************************************)
(* Claims about the validators.                                            *)
(***************************************************************************)
UpperCase == {"A", "B", "C"}

\* non-empty, lower-case, no whitespace at either end, and made of letters,
\* digits, whitespace and hyphens only
SanitizedTerm(term) ==
    /\ term # <<>>
    /\ term[1] # SP
    /\ term[Len(term)] # SP
    /\ \A i \in DOMAIN term :
          /\ term[i] \notin UpperCase
          /\ term[i] \in LETTERS \cup DIGITS \cup {SP, "-"}

\* the term lists of a QueryPlan or a QueryAnalysis
TermFields(value) ==
    {"required_terms", "optional_terms", "person_names", "locations"}
    \cup (IF value.kind = "analysis" THEN {"search_terms"} ELSE {})

Validated == v_pc = "done" /\ v_result.kind \in {"plan", "analysis"}

\* C14: every term of the required_terms, optional_terms, person_names and
\* locations of a returned QueryPlan, and of those and the search_terms of a
\* returned QueryAnalysis, is non-empty, lower-case, without leading or
\* trailing whitespace, and made of letters, digits, whitespace and hyphens.
C14_TermsSanitized ==
    Validated
    => \A f \in TermFields(v_result) :
          \A i \in DOMAIN v_result[f] : SanitizedTerm(v_result[f][i])

\* an analysis whose LLM output held upper case, punctuation and padding in
\* every list
C14_Witness ==
    /\ Validated
    /\ v_result.kind = "analysis"
    /\ "search_terms" \in DOMAIN v_plan_dict
    /\ v_plan_dict.search_terms = DirtyTerms
    /\ v_plan_dict.required_terms = DirtyTerms
    /\ v_result.search_terms = << <<"a", "b">>, <<"b", "-", "1", SP, "c">> >>
    /\ v_result.person_names = << <<"a", SP, "c">> >>

\* C15: a QueryPlan returned by validate_query_plan has at most 15 optional
\* terms, 3 person names, 3 locations and 2 date hints, and at most 20 terms
\* in total across required_terms, optional_terms, person_names and locations.
C15_ListCaps ==
    (v_pc = "done" /\ v_result.kind = "plan")
    => /\ Len(v_result.optional_terms) <= MaxOptionalTerms
       /\ Len(v_result.person_names) <= MaxPersonNames
       /\ Len(v_result.locations) <= MaxLocations
       /\ Len(v_result.date_hints) <= MaxDateHints
       /\ Len(v_result.required_terms) + Len(v_result.optional_terms)
             + Len(v_result.person_names) + Len(v_result.locations)
          <= MaxTotalTerms

(***************************************************************************)
(* Claims about pagination, tokenization and scoring.                      *)
(***************************************************************************)
SearchDone == s_pc = "done"

\* the results of page p of the finished search, by the pagination of the
\* program
PageResults(p) == Paginate(<<>>, s_matches, p, s_args.per_page).results

\* the results of pages 1..n, one after the other
RECURSIVE PagesUpTo(_)
PagesUpTo(n) == IF n = 0 THEN <<>> ELSE PagesUpTo(n - 1) \o PageResults(n)

\* C16: the results of page p are the entries at positions (p-1)*per_page to
\* p*per_page - 1 of the sorted match list (fewer when the list ends first);
\* pages 1..total_pages together hold every match exactly once, a page beyond
\* total_pages is empty, and has_more is true exactly when p < total_pages.
C16_PageSlices ==
    SearchDone
    => LET page == s_args.page
           per_page == s_args.per_page
           first == (page - 1) * per_page
           rest == Len(s_matches) - first
           size == IF rest <= 0 THEN 0
                   ELSE IF rest < per_page THEN rest ELSE per_page
       IN  /\ Len(s_result.results) = size
           /\ \A i \in 1..size : s_result.results[i] = s_matches[first + i]
           /\ PagesUpTo(s_result.total_pages) = s_matches
           /\ page > s_result.total_pages => s_result.results = <<>>
           /\ s_result.has_more <=> page < s_result.total_pages

\* the second, partly filled page of three matches, and a page past the end
C16_Witness ==
    /\ SearchDone
    /\ Len(s_matches) = 3
    /\ s_args.per_page = 2
    /\ s_args.page = 2
    /\ s_result.results = <<s_matches[3]>>
    /\ s_result.total_pages = 2
    /\ ~s_result.has_more

\* the positions of the double quotes of q
QuotePositions(q) == {i \in DOMAIN q : q[i] = Q}

\* the first quote after position i, 0 when there is none
QuoteAfter(q, i) ==
    IF \E j \in QuotePositions(q) : j > i
    THEN CHOOSE j \in QuotePositions(q) :
            j > i /\ \A k \in QuotePositions(q) : k > i => j <= k
    ELSE 0

\* opens is the set of the opening quotes of the non-empty quoted substrings
\* of q: each is closed by the next quote, further than one position away,
\* no quote both opens and closes, and a quote left over cannot open a
\* non-empty quoted substring
OpensQuoted(q, opens) ==
    LET closes == {QuoteAfter(q, i) : i \in opens}
    IN  /\ \A i \in opens : QuoteAfter(q, i) > i + 1
        /\ opens \cap closes = {}
        /\ \A i \in QuotePositions(q) \ (opens \cup closes) :
              QuoteAfter(q, i) \in {0, i + 1}

\* the elements of a set of positions in increasing order
Ascending(positions) ==
    [m \in 1..Cardinality(positions) |->
        CHOOSE p \in positions : Cardinality({x \in positions : x <= p}) = m]

\* the terms the query q must give when its quoted substrings open at opens
TermsFor(q, opens) ==
    LET starts == Ascending(opens)
        quoted == [m \in DOMAIN starts |->
                      SubSeq(q, starts[m] + 1, QuoteAfter(q, starts[m]) - 1)]
        outside == {p \in DOMAIN q :
                       \A i \in opens : p < i \/ p > QuoteAfter(q, i)}
        kept == Ascending(outside)
        remaining == [m \in DOMAIN kept |-> q[kept[m]]]
        words == Split(remaining)
    IN  [m \in DOMAIN quoted |-> Lower(quoted[m])]
        \o [m \in DOMAIN words |-> Lower(words[m])]

KeywordSearchDone == SearchDone /\ s_args.op = "keyword"

\* C17: parse_search_terms returns the lower-cased contents of the non-empty
\* double-quoted substrings of the query, in order of appearance, followed by
\* the lower-cased whitespace-separated words of what remains without them;
\* an empty or whitespace-only query gives no terms, and search_index then
\* returns total_matches 0, no results and total_pages 0 whatever the index.
C17_Tokenization ==
    KeywordSearchDone
    => LET q == Strip(s_args.query)
       IN  /\ \E opens \in SUBSET QuotePositions(q) :
                 /\ OpensQuoted(q, opens)
                 /\ parse_search_terms(s_args.query) = TermsFor(q, opens)
           /\ q = <<>>
              => /\ parse_search_terms(s_args.query) = <<>>
                 /\ s_result.total_matches = 0
                 /\ s_result.results = <<>>
                 /\ s_result.total_pages = 0

\* a query with a word before a quoted phrase in upper case
C17_Witness ==
    /\ KeywordSearchDone
    /\ s_args.query = <<"b", SP, Q, "A", Q>>
    /\ parse_search_terms(s_args.query) = << <<"a">>, <<"b">> >>
    /\ s_result.total_matches > 0

\* a whitespace-only query on an index that holds documents
BlankQueryOnLoadedIndex ==
    /\ KeywordSearchDone
    /\ s_args.query = <<SP>>
    /\ s_index # <<>>
    /\ s_result.total_pages = 0

\* the positions of text at which the term t starts
StartsOf(t, text) ==
    {at \in 1..Len(text) :
        /\ at + Len(t) - 1 <= Len(text)
        /\ \A c \in 1..Len(t) : text[at + c - 1] = t[c]}

\* the number of occurrences of t in text, occurrences not overlapping: the
\* size of a largest set of starts that lie at least Len(t) apart
Occurrences(t, text) ==
    LET apart == {P \in SUBSET StartsOf(t, text) :
                     \A a, b \in P : a < b => b - a >= Len(t)}
    IN  CHOOSE n \in 0..Len(text) :
            /\ \E P \in apart : Cardinality(P) = n
            /\ \A P \in apart : Cardinality(P) <= n

\* the lower-cased text of the page a match stands for
MatchText(match) ==
    LET i == CHOOSE i \in DOMAIN s_index : s_index[i].filename = match.filename
        j == CHOOSE j \in DOMAIN s_index[i].pages :
                s_index[i].pages[j].page_num = match.page
    IN  Lower(s_index[i].pages[j].text)

\* C18: in keyword search the match_count of a match is the sum over the
\* parsed terms of the occurrences of the term in the page's lower-cased
\* text, the match list is in order of non-increasing match_count before it
\* is paginated, and no result of a later page has a higher match_count than
\* a result of an earlier page.
C18_ScoreAndOrder ==
    KeywordSearchDone
    => LET terms == parse_search_terms(s_args.query)
       IN  /\ \A k \in DOMAIN s_matches :
                 s_matches[k].match_count
                    = SumSeq([i \in DOMAIN terms |->
                                 Occurrences(terms[i], MatchText(s_matches[k]))])
           /\ \A k \in 1..(Len(s_matches) - 1) :
                 s_matches[k].match_count >= s_matches[k + 1].match_count
           /\ s_result.results = PageResults(s_args.page)
           /\ \A p1, p2 \in 1..Len(s_matches) :
                 p1 < p2
                 => \A a \in DOMAIN PageResults(p1), b \in DOMAIN PageResults(p2) :
                       PageResults(p1)[a].match_count
                          >= PageResults(p2)[b].match_count

\* three matches of two terms that the sort has reordered, one per page
C18_Witness ==
    /\ KeywordSearchDone
    /\ s_args.query = <<"a", SP, "a">>
    /\ s_args.per_page = 1
    /\ Len(s_matches) = 3
    /\ s_index[1].filename = "f1"
    /\ s_matches[1].filename = "f4"
    /\ s_matches[1].match_count = 8
    /\ s_matches[3].match_count = 2

SmartSearchDone == SearchDone /\ s_args.op = "smart"

\* how many terms of the list occur in the text
PresentIn(terms, text) ==
    Cardinality({i \in DOMAIN terms : StartsOf(terms[i], text) # {}})

\* the sum S of the claim for one page
WeightedSum(plan, text) ==
    SumSeq([i \in DOMAIN plan.required_terms |->
               LET tenfold == 10 * Occurrences(plan.required_terms[i], text)
               IN  IF tenfold < 30 THEN tenfold ELSE 30])
    + 5 * PresentIn(plan.optional_terms, text)
    + 15 * PresentIn(plan.person_names, text)
    + 10 * PresentIn(plan.locations, text)

\* C19: the relevance_score of every page returned by smart_search_index is
\* min(100, S), S being the sum of min(10 x occurrences, 30) over the required
\* terms plus 5 per optional term present, 15 per person name present and 10
\* per location present; it lies in 0..100 and is at least 10 per required
\* term, capped at 100.
C19_RelevanceScore ==
    SmartSearchDone
    => LET plan == s_args.plan
           floor == 10 * Len(plan.required_terms)
       IN  /\ \A k \in DOMAIN s_matches :
                 LET S == WeightedSum(plan, MatchText(s_matches[k]))
                     score == s_matches[k].relevance_score
                 IN  /\ score = (IF S < 100 THEN S ELSE 100)
                     /\ score >= 0 /\ score <= 100
                     /\ score >= (IF floor < 100 THEN floor ELSE 100)
           /\ \A r \in DOMAIN s_result.results :
                 \E k \in DOMAIN s_matches : s_result.results[r] = s_matches[k]

\* a page whose sum is 120 scores 100, next to a page that scores less
C19_Witness ==
    /\ SmartSearchDone
    /\ Len(s_args.plan.required_terms) = 3
    /\ \E k \in DOMAIN s_matches :
          /\ WeightedSum(s_args.plan, MatchText(s_matches[k])) = 120
          /\ s_matches[k].relevance_score = 100
          /\ \E r \in DOMAIN s_result.results : s_result.results[r] = s_matches[k]
    /\ \E k \in DOMAIN s_matches : s_matches[k].relevance_score < 100

(***************************************************************************)
(* Claims about the loaded index.                                          *)
(***************************************************************************)
\* the positions of the well-formed document files of the texts folder
WellFormedFiles == {i \in DOMAIN disk.texts : disk.texts[i] # Malformed}

\* the document doc is the file as loaded: same name and pages, its own
\* file_type, or 'pdf' when the file has none
LoadedFrom(doc, file) ==
    /\ doc.filename = file.filename
    /\ doc.pages = file.pages
    /\ doc.file_type = (IF file.file_type = Missing THEN "pdf" ELSE file.file_type)

EveryAttemptInvalid(t) ==
    /\ SmartDone(t)
    /\ env.outcomes = InvalidOutcomes
    /\ th[t].llm_calls = MaxRetries + 1

\* C21: when every attempt returns well-formed JSON that fails
\* validate_query_plan, parse_query_with_llm raises LLMValidationError and the
\* endpoint answers 400 'validation', not the service error.
C21_ValidationErrorRaised ==
    \A t \in DOMAIN th :
        EveryAttemptInvalid(t)
        => /\ th[t].exc = "LLMValidationError"
           /\ th[t].response.status = 400
           /\ th[t].response.error_type = "validation"

(***************************************************************************)
(* Key spaces of the query cache                                           *)
(***************************************************************************)
\* PROJECT_ID_PATTERN = ^[a-z0-9][a-z0-9-]*$ (projects.py 10)
ValidProjectId(pid) ==
    /\ pid # <<>>
    /\ Head(pid) \in (LETTERS \ UpperCase) \cup DIGITS
    /\ \A i \in DOMAIN pid : pid[i] \in (LETTERS \ UpperCase) \cup DIGITS \cup {"-"}

\* the call of t has returned a value
Returned(t) == th[t].pc = "responded" /\ th[t].value # NoValue

\* C22: for valid project ids, the key parse_query_with_llm uses never equals
\* the key analyze_query uses: the entry under the key of a smart request is
\* never a QueryAnalysis, parse_query_with_llm returns QueryPlans only and
\* analyze_query returns QueryAnalyses only.
C22_SeparateKeySpaces ==
    (\A c \in Calls : ValidProjectId(c.pid))
    => \A t \in DOMAIN th :
          /\ (th[t].kind = "smart" /\ th[t].key \in DOMAIN query_cache)
             => query_cache[th[t].key].kind = "plan"
          /\ (th[t].kind = "smart" /\ Returned(t)) => th[t].value.kind = "plan"
          /\ (th[t].kind = "analyze" /\ Returned(t))
             => th[t].value.kind = "analysis"

(***************************************************************************)
(* Claims about the background download and the pre-load.                  *)
(***************************************************************************)
\* the pre-load thread has been started
PreloadStarted == bg.preload # "off"

\* C23: with blob storage enabled, whenever the pre-load thread has been
\* started the download of the project has been reported complete and no
\* download thread is running.
C23_PreloadAfterDownload ==
    (blob.enabled /\ PreloadStarted)
    => /\ StateGet(download_states, "complete")
       /\ \A d \in DownloadThreads : ~IsAlive(d)

\* the pre-load thread reads the folder a download thread has filled
C23_Witness ==
    /\ blob.enabled
    /\ bg.preload = "read"
    /\ bg.download = "done"
    /\ bg.files = Len(IndexFiles)
    /\ disk.texts = IndexFiles

\* C24: at most one download thread of the project is alive at any time,
\* whatever the sequence of calls of start_background_index_download.
C24_OneDownloadThread ==
    Cardinality({d \in DownloadThreads : IsAlive(d)}) <= 1

\* the download has been reported finished
DownloadReportedComplete ==
    /\ download_states # NoResult
    /\ ~download_states.in_progress
    /\ download_states.complete

\* C26: every download thread that has been started leads to the state
\* in_progress = false, complete = true, on success and on every failure.
C26_DownloadCompletes ==
    \A d \in DownloadThreads : IsAlive(d) ~> DownloadReportedComplete

(***************************************************************************)
(* Claims about local file serving.                                        *)
(***************************************************************************)
\* the handler has answered a request for a local file of a project whose
\* source folder is configured
LocalServed ==
    /\ f_pc = "done"
    /\ ~f_request.blob_enabled
    /\ f_request.source_folder # <<>>

\* path names the directory root or something in its tree: the components of
\* root are the first components of path
InTree(path, root) ==
    LET p == SplitPath(path)
        r == SplitPath(root)
    IN  Len(r) <= Len(p) /\ SubSeq(p, 1, Len(r)) = r

\* C25: when the normalised join of the source folder and the requested path
\* is not in the directory tree of the source folder, a sibling directory
\* whose name begins with the folder's name included, both handlers answer
\* 403 and serve nothing.
C25_ServesInsideSourceOnly ==
    LET full_path == normpath(path_join(f_request.source_folder,
                                        f_request.filepath))
    IN  (LocalServed /\ ~InTree(full_path, normpath(f_request.source_folder)))
        => /\ f_response.status = 403
           /\ f_response.served = None

(***************************************************************************)
(* Claims about the in-memory index and its metadata.                      *)
(***************************************************************************)
\* C27: whenever the pre-load state of the project reports complete = true,
\* the project's index and metadata are present in memory.
C27_CompleteMeansLoaded ==
    StateGet(preload_states, "complete")
    => (indexes # NoResult /\ metadatas # NoResult)

\* the handler h found the project in _indexes and is reading _metadatas
ReadsMetadata(h) == hd[h].pc = "get_metadata"

\* C28: a handler that found the project in the index dict finds its entry
\* in the metadata dict: the lookup never fails with KeyError.
C28_MetadataWithIndex ==
    \A h \in DOMAIN hd :
        /\ ReadsMetadata(h) => metadatas # NoResult
        /\ hd[h].pc = "responded" => hd[h].response # Raise("KeyError")

(***************************************************************************)
(* Claims about the cache operations under concurrency.                    *)
(***************************************************************************)
\* the key the next statement of t deletes from _query_cache, or from
\* _cache_timestamps, is there
DeleteFindsKey(t) ==
    /\ th[t].pc = "p_del1" => th[t].key \in DOMAIN query_cache
    /\ th[t].pc = "p_del2" => th[t].key \in TsKeys(cache_timestamps)
    /\ th[t].pc = "c_del1" => th[t].oldest_key \in DOMAIN query_cache
    /\ th[t].pc = "c_del2" => th[t].oldest_key \in TsKeys(cache_timestamps)

\* no request is being served
NoCallInFlight == \A t \in DOMAIN th : th[t].pc \in {"idle", "responded"}

\* C29: under any interleaving of parse_query_with_llm calls no delete of an
\* expired or of the oldest entry misses its key, and when no call is in
\* flight the plan map and the timestamp map hold the same keys.
C29_CacheOperationsSafe ==
    /\ \A t \in DOMAIN th : DeleteFindsKey(t)
    /\ NoCallInFlight => DOMAIN query_cache = TsKeys(cache_timestamps)

====
